---------------------------- MODULE Spec2Model ----------------------------
(* A model of the google-web-search MCP server: the session of             *)
(* GoogleWebSearchMCP (index.ts), the loopback OAuth flow and credential   *)
(* cache (oauth.ts) and the project resolution (setup.ts).                 *)
EXTENDS Integers, Sequences, FiniteSets, TLC

(* ------------------------------ bounds ------------------------------- *)
\* tool calls handled by one process
MaxCalls == 2
\* HTTP requests received by the loopback listeners of one process
MaxRequests == 2
\* process restarts (the files outlive the process)
MaxRestarts == 1

Calls == 1..MaxCalls

(* --------------------------- JavaScript values ------------------------ *)
Undef == "<undefined>"

\* JavaScript truthiness of a string-or-undefined value
Truthy(x) == x # Undef /\ x # ""

\* a || b
Or(a, b) == IF Truthy(a) THEN a ELSE b

\* String.prototype.trim() === '' for the queries of the model
Queries == {Undef, "", "  ", "q"}
\* the call carries no arguments object at all: args is undefined
NoArgs == "<no arguments>"
Arguments == Queries \cup {NoArgs}
trim(q) == IF q = "  " THEN "" ELSE q

(* ------------------------------ files --------------------------------- *)
\* Credentials (google-auth-library): the fields the program reads or writes
CredKeys == {"access_token", "refresh_token"}
NoCreds == [k \in CredKeys |-> Undef]
TokenSets == { [access_token |-> "at1", refresh_token |-> "rt1"],
               [access_token |-> "at2", refresh_token |-> Undef] }

\* JSON.stringify(credentials, null, 2): members whose value is undefined are
\* left out of the text; the text is modelled by its set of members
JSONstringify(creds) == { <<k, creds[k]>> : k \in {f \in CredKeys : creds[f] # Undef} }

\* JSON.parse(text) read as Credentials: an absent member reads as undefined
JSONparse(obj) ==
  [k \in CredKeys |->
     IF \E m \in obj : m[1] = k THEN (CHOOSE m \in obj : m[1] = k)[2] ELSE Undef]

\* a file: absent, or present with a text that parses as JSON or does not
NoFile == [exists |-> FALSE, parses |-> FALSE, obj |-> {}]
Garbage == [exists |-> TRUE, parses |-> FALSE, obj |-> {}]
JsonFile(obj) == [exists |-> TRUE, parses |-> TRUE, obj |-> obj]

\* the project config file {project_id, setup_date, auth_type}
ConfigFile(id) == JsonFile({<<"project_id", id>>})
project_id(file) ==
  IF \E m \in file.obj : m[1] = "project_id"
  THEN (CHOOSE m \in file.obj : m[1] = "project_id")[2] ELSE Undef


(* ------------------------- oauth.ts: credentials ---------------------- *)
\* what client.getAccessToken() may do in loadCachedCredentials: return a
\* token, return none, or throw (no refresh token, refresh refused, network)
AccessOutcomes == {"token", "none", "throw"}

\* the body of loadCachedCredentials inside its try block; "throw" is an
\* exception leaving the block
loadCachedCredentialsTry(keyFile, access, infoOk) ==
  IF ~keyFile.exists THEN "throw"                 \* fs.readFile rejects
  ELSE IF ~keyFile.parses THEN "throw"            \* JSON.parse throws
  ELSE IF access = "throw" THEN "throw"           \* getAccessToken rejects
  ELSE IF access = "none" THEN "false"            \* if (!token) return false
  ELSE IF ~infoOk THEN "throw"                    \* getTokenInfo rejects
  ELSE "true"

\* loadCachedCredentials without its catch: an exception reaches the caller
loadCachedCredentialsUncaught(keyFile, access, infoOk) ==
  loadCachedCredentialsTry(keyFile, access, infoOk)

\* a load that never accepts what it has read
loadCachedCredentialsNeverValid(keyFile, access, infoOk) == "false"

\* loadCachedCredentials: catch (_) { return false }
loadCachedCredentials(keyFile, access, infoOk) ==
  IF loadCachedCredentialsTry(keyFile, access, infoOk) = "throw" THEN "false"
  ELSE loadCachedCredentialsTry(keyFile, access, infoOk)

\* the credentials client.setCredentials(JSON.parse(creds)) has installed when
\* loadCachedCredentials is over (none when the read or the parse failed)
loadedCredentials(keyFile) ==
  IF keyFile.exists /\ keyFile.parses THEN JSONparse(keyFile.obj) ELSE NoCreds

\* the file loadCachedCredentials reads:
\* process.env.GOOGLE_APPLICATION_CREDENTIALS || getCachedCredentialPath()
keyFileOf(e, cachedFile, otherFile) ==
  IF Truthy(e.GOOGLE_APPLICATION_CREDENTIALS) THEN otherFile ELSE cachedFile

\* whether getTokenInfo is reached (one request to the token-info endpoint)
callsTokenInfo(keyFile, access) ==
  keyFile.exists /\ keyFile.parses /\ access = "token"

\* cacheCredentials: the text written to getCachedCredentialPath()
cacheCredentials(credentials) == JsonFile(JSONstringify(credentials))

\* await fs.rm(path): the file is removed, or rm throws because there is no
\* file or because it cannot be removed
rm(file, rmOk) ==
  IF file.exists /\ rmOk THEN [thrown |-> FALSE, file |-> NoFile]
  ELSE [thrown |-> TRUE, file |-> file]

\* the removal without the try around it
rmUncaught(file, rmOk) == rm(file, rmOk)

\* try { await fs.rm(getCachedCredentialPath()) } catch (_) { }
rmIgnoringErrors(file, rmOk) == [thrown |-> FALSE, file |-> rm(file, rmOk).file]

(* ---------------------- oauth.ts: callback handler -------------------- *)
\* the state generated by authWithWeb for an attempt, and another value
GoodState == "s0"
RequestParams ==
  [path : BOOLEAN,                      \* req.url contains '/oauth2callback'
   error : {Undef, "access_denied"},    \* qs.get('error')
   state : {Undef, GoodState, "sX"},    \* qs.get('state')
   code : {Undef, "c0"}]                \* qs.get('code')

\* a handler that looks for the code before the error
handlerBranchCodeFirst(p) ==
  IF ~p.path THEN "Unexpected"
  ELSE IF Truthy(p.code) THEN "getToken"
  ELSE IF Truthy(p.error) THEN "AuthError"
  ELSE IF p.state # GoodState THEN "CSRF"
  ELSE "NoCode"

\* the branch the handler takes for a request, up to its first await
handlerBranch(p) ==
  IF ~p.path THEN "Unexpected"
  ELSE IF Truthy(p.error) THEN "AuthError"
  ELSE IF p.state # GoodState THEN "CSRF"
  ELSE IF Truthy(p.code) THEN "getToken"
  ELSE "NoCode"

(* ------------------------ setup.ts: project id ------------------------ *)
\* responses of the loadCodeAssist endpoint: status 0 stands for a failed
\* fetch (network error); a 200 body is {cloudaicompanionProject?,
\* onboardingRequired?}
DiscoveryResponses ==
  [status : {0, 403, 404, 500}, project : {Undef}, onboardingRequired : {FALSE}]
  \cup [status : {200}, project : {Undef, "", "pD"}, onboardingRequired : BOOLEAN]

\* responses of the onboardUser endpoint: respId is
\* result.response?.cloudaicompanionProject?.id, topId is
\* result.cloudaicompanionProject
OnboardResponses ==
  [status : {0, 500}, respId : {Undef}, topId : {Undef}]
  \cup [status : {200}, respId : {Undef, "pO"}, topId : {Undef, "pT"}]

\* response.ok
ok(status) == status >= 200 /\ status <= 299

\* a discovery for which every response that is not ok is fatal
loadCodeAssistStrict(resp) ==
  IF resp.status = 0 \/ ~ok(resp.status)
  THEN [thrown |-> TRUE, project |-> Undef, onboardingRequired |-> FALSE]
  ELSE [thrown |-> FALSE, project |-> resp.project,
        onboardingRequired |-> resp.onboardingRequired]

\* loadCodeAssist: the ProjectSetupResponse it returns, or thrown
loadCodeAssist(resp) ==
  IF resp.status = 0 THEN [thrown |-> TRUE, project |-> Undef, onboardingRequired |-> FALSE]
  ELSE IF ~ok(resp.status)
  THEN IF resp.status = 404 \/ resp.status = 403
       THEN [thrown |-> FALSE, project |-> Undef, onboardingRequired |-> TRUE]
       ELSE [thrown |-> TRUE, project |-> Undef, onboardingRequired |-> FALSE]
  ELSE [thrown |-> FALSE, project |-> resp.project,
        onboardingRequired |-> resp.onboardingRequired]

\* onboardUser: the id it returns, or thrown
onboardUser(resp, projectId) ==
  IF resp.status = 0 \/ ~ok(resp.status) THEN [thrown |-> TRUE, id |-> Undef]
  ELSE [thrown |-> FALSE, id |-> Or(Or(resp.respId, resp.topId), projectId)]

\* the body of saveProjectConfig inside its try block: mkdir and writeFile
\* write the file, or one of them throws and the file is as it was
writeConfig(file, projectId, writeOk) ==
  IF writeOk THEN [thrown |-> FALSE, file |-> ConfigFile(projectId)]
  ELSE [thrown |-> TRUE, file |-> file]

\* saveProjectConfig without its catch: the exception reaches setupUserProject
saveProjectConfigUncaught(file, projectId, writeOk) == writeConfig(file, projectId, writeOk)

\* saveProjectConfig: catch (error) { console.error('Warning: ...') }
saveProjectConfig(file, projectId, writeOk) ==
  [thrown |-> FALSE, file |-> writeConfig(file, projectId, writeOk).file]

\* the project id after the config file has been read (setup.ts 198-211)
savedProjectId(envProject, file) ==
  IF file.exists /\ file.parses /\ Truthy(project_id(file)) /\ ~Truthy(envProject)
  THEN project_id(file) ELSE envProject

\* a check that takes the empty string for an id
projectMissingUndefinedOnly(projectId) == projectId = Undef

\* if (!projectId) throw new Error('GOOGLE_CLOUD_PROJECT is required')
projectMissing(projectId) == ~Truthy(projectId)

\* setupUserProject: what it returns or throws, the config file afterwards,
\* and the requests it has sent. d is the discovery response, o the
\* onboarding response, w1 and w2 whether the two config writes succeed.
setupUserProject(envProject, file, d, o, w1, w2) ==
  LET p0 == savedProjectId(envProject, file)
      load == loadCodeAssist(d)
  IN IF load.thrown
     THEN [thrown |-> TRUE, id |-> Undef, error |-> "Load Code Assist failed",
           config |-> file, discovery |-> 1, onboard |-> 0]
     ELSE
       LET detected == Truthy(load.project)
           p1 == IF detected THEN load.project ELSE p0
           save1 == IF detected THEN saveProjectConfig(file, p1, w1)
                    ELSE [thrown |-> FALSE, file |-> file]
           f1 == save1.file
       IN IF save1.thrown
          THEN [thrown |-> TRUE, id |-> Undef, error |-> "Could not save project configuration",
                config |-> f1, discovery |-> 1, onboard |-> 0]
          ELSE IF load.onboardingRequired
          THEN LET ob == onboardUser(o, p1)
               IN IF ob.thrown
                  THEN [thrown |-> TRUE, id |-> Undef, error |-> "User onboarding failed",
                        config |-> f1, discovery |-> 1, onboard |-> 1]
                  ELSE LET p2 == IF Truthy(ob.id) THEN ob.id ELSE p1
                           save2 == IF Truthy(ob.id) THEN saveProjectConfig(f1, p2, w2)
                                    ELSE [thrown |-> FALSE, file |-> f1]
                           f2 == save2.file
                       IN IF save2.thrown
                          THEN [thrown |-> TRUE, id |-> Undef,
                                error |-> "Could not save project configuration",
                                config |-> f2, discovery |-> 1, onboard |-> 1]
                          ELSE IF projectMissing(p2)
                          THEN [thrown |-> TRUE, id |-> Undef,
                                error |-> "GOOGLE_CLOUD_PROJECT is required",
                                config |-> f2, discovery |-> 1, onboard |-> 1]
                          ELSE [thrown |-> FALSE, id |-> p2, error |-> "",
                                config |-> f2, discovery |-> 1, onboard |-> 1]
          ELSE IF projectMissing(p1)
               THEN [thrown |-> TRUE, id |-> Undef,
                     error |-> "GOOGLE_CLOUD_PROJECT is required",
                     config |-> f1, discovery |-> 1, onboard |-> 0]
               ELSE [thrown |-> FALSE, id |-> p1, error |-> "",
                     config |-> f1, discovery |-> 1, onboard |-> 0]

(* --------------------- index.ts: transport selection ------------------ *)
\* initializeGeminiClient: const apiKey = GOOGLE_API_KEY || GEMINI_API_KEY
apiKeyOf(e) == Or(e.GOOGLE_API_KEY, e.GEMINI_API_KEY)

\* const useOAuth = process.env.USE_OAUTH === 'true' || !apiKey
useOAuth(e) == e.USE_OAUTH = "true" \/ ~Truthy(apiKeyOf(e))

\* the branch of initializeGeminiClient: if (useOAuth) / else if (apiKey) / else
initBranch(e) ==
  IF useOAuth(e) THEN "oauth"
  ELSE IF Truthy(apiKeyOf(e)) THEN "apikey"
  ELSE "throw"

\* the model of the API-key transport:
\* this.genAI.getGenerativeModel({ model: 'gemini-2.0-flash-exp', ... })
getGenerativeModel(e) == [model |-> "gemini-2.0-flash-exp"]

\* a guard that looks at this.model only
needsInitModelOnly(mdl, oc) == ~mdl

\* handleWebSearch: if (!this.model && !this.oauthClient) initialize
needsInit(mdl, oc) == ~mdl /\ oc = 0

\* handleWebSearch: if (!args.query || args.query.trim() === '')
emptyQuery(q) == ~Truthy(q) \/ trim(q) = ""

(* ------------------------------- state -------------------------------- *)
VARIABLES
  env,          \* process.env, fixed for the life of the model
  credFile,     \* ~/.gemini/mcp_oauth_creds.json
  otherFile,    \* the file GOOGLE_APPLICATION_CREDENTIALS names
  configFile,   \* ~/.google-web-search/config.json
  model,        \* this.model # null
  oauthClient,  \* this.oauthClient: 0 for null, else the call that built it
  projectId,    \* this.projectId (Undef for null)
  pc,           \* where each handleWebSearch call stands
  query,        \* args.query of each call
  result,       \* the tool result of each call
  transport,    \* the transport each call sent its search over
  net,          \* requests each call has sent, per endpoint
  credentials,  \* client.credentials of the client each call built
  loaded,       \* what loadCachedCredentials returned in each call
  setup,        \* what setupUserProject did in each call
  listener,     \* the loopback server of each call's authWithWeb
  promise,      \* loginCompletePromise of each call's authWithWeb
  reqs,         \* the requests each listener has received, in order
  inits,        \* initializeGeminiClient runs in this process
  exchanged,    \* token exchanges that have succeeded, per call
  saves,        \* writes of the credential file, per call
  lastSaved,    \* the credentials of the last completed cacheCredentials
  restarts,     \* process restarts so far
  responseText,       \* the text of the backend's answer, as characters
  sources,            \* groundingMetadata.groundingChunks of the answer
  groundingSupports,  \* groundingMetadata.groundingSupports of the answer
  texts,              \* the tool results built from the answer, one per run
  printed,            \* what the CLI prints for the answer, and its exit status
  assisted,           \* the result the Code Assist server builds from the answer
  reply,              \* the last response to a request that is not a search
  cleared,            \* how the last clearCachedCredentialFile call ended
  webLogin            \* per call: the port in the redirect URI and the port listened on

files == <<credFile, otherFile, configFile>>
session == <<model, oauthClient, projectId>>
callv == <<pc, query, result, transport>>
flow == <<listener, promise, reqs, webLogin>>
hist == <<inits, exchanged, saves, lastSaved, restarts>>
answer == <<responseText, sources, groundingSupports, texts, printed, assisted>>
api == <<reply, cleared>>
vars == <<env, files, session, callv, net, credentials, loaded, setup, flow, hist, answer,
          api>>

NetOps == {"tokeninfo", "getToken", "discovery", "onboard", "search"}
NoNet == [op \in NetOps |-> 0]
NoResponse == [status |-> 0]
NoWebLogin == [redirectPort |-> 0, listenPort |-> 0]
NoSetup == [status |-> "none", id |-> Undef, error |-> "", cached |-> Undef,
            d |-> NoResponse, o |-> NoResponse, w1 |-> TRUE, w2 |-> TRUE]

Envs ==
  [GOOGLE_API_KEY : {Undef, "k1"},
   GEMINI_API_KEY : {Undef, "k2"},
   USE_OAUTH : {Undef, "true"},
   GOOGLE_APPLICATION_CREDENTIALS : {Undef, "/sa.json"},
   GOOGLE_CLOUD_PROJECT : {Undef, "", "pE"},
   GEMINI_MODEL : {Undef, "gemini-1.5-pro"}]

\* credentials cached by an earlier run, and a service-account key file
EarlierCreds == [access_token |-> "at0", refresh_token |-> "rt0"]
KeyFileText == JsonFile({<<"access_token", "sa">>})

\* the responses to tools/list and to a call of a tool the server has not
NoReply == [kind |-> "none", tools |-> <<>>, message |-> <<>>]

\* the state of a freshly started process (the fields of the class are null)
\* over the given environments and file contents
InitWith(E, credFiles, otherFiles, configFiles) ==
  /\ env \in E
  /\ credFile \in credFiles
  /\ otherFile \in IF Truthy(env.GOOGLE_APPLICATION_CREDENTIALS)
                   THEN otherFiles ELSE {NoFile}
  /\ configFile \in configFiles
  /\ model = FALSE
  /\ oauthClient = 0
  /\ projectId = Undef
  /\ pc = [c \in Calls |-> "idle"]
  /\ query = [c \in Calls |-> Undef]
  /\ result = [c \in Calls |-> "none"]
  /\ transport = [c \in Calls |-> "none"]
  /\ net = [c \in Calls |-> NoNet]
  /\ credentials = [c \in Calls |-> NoCreds]
  /\ loaded = [c \in Calls |-> "none"]
  /\ setup = [c \in Calls |-> NoSetup]
  /\ listener = [c \in Calls |-> "unbound"]
  /\ promise = [c \in Calls |-> "pending"]
  /\ reqs = [c \in Calls |-> <<>>]
  /\ webLogin = [c \in Calls |-> NoWebLogin]
  /\ inits = 0
  /\ exchanged = [c \in Calls |-> 0]
  /\ saves = [c \in Calls |-> 0]
  /\ lastSaved = NoCreds
  /\ restarts = 0
  /\ reply = NoReply
  /\ cleared = "none"

\* no backend answer is being formatted
NoAnswer ==
  /\ responseText = <<>>
  /\ sources = <<>>
  /\ groundingSupports = <<>>
  /\ texts = <<>>
  /\ printed = <<>>
  /\ assisted = <<>>

(* ------------------------- index.ts: the search ----------------------- *)
\* what leaves handleWebSearch when its catch block cannot read args.query
TypeErrorThrown == "throws TypeError: Cannot read properties of undefined (reading 'query')"

\* the catch block of handleWebSearch: an error result with the message, or,
\* when args is undefined, the TypeError of its own `${args.query}`
caught(q, message) == IF q = NoArgs THEN TypeErrorThrown ELSE message

\* no handleWebSearch call is between its start and its result: the client
\* sends its next request when it has the result of the one before
NoCallInFlight == \A c \in Calls : pc[c] \in {"idle", "done"}

\* the project callCodeAssistAPI sends: this.projectId || GOOGLE_CLOUD_PROJECT
projectOf(pid, e) == Or(pid, e.GOOGLE_CLOUD_PROJECT)

\* handleWebSearch from the query check to the search request (index.ts
\* 145-182), with the session fields as they are once initialization is
\* over: where the call stands next, its result so far, the transport it
\* sends the search over and the number of search requests sent
afterInit(q, mdl, oc, pid, e) ==
  IF q = NoArgs
  THEN [pc |-> "done", result |-> caught(q, "TypeError"), transport |-> "none", search |-> 0]
  ELSE IF emptyQuery(q)
  THEN [pc |-> "done", result |-> "Error: The query parameter cannot be empty.",
        transport |-> "none", search |-> 0]
  ELSE IF oc # 0
  THEN IF ~Truthy(projectOf(pid, e))
       THEN [pc |-> "done", result |-> "Error: Project ID not available",
             transport |-> "none", search |-> 0]
       ELSE [pc |-> "search", result |-> "none", transport |-> "oauth", search |-> 1]
  ELSE IF mdl
  THEN [pc |-> "search", result |-> "none", transport |-> "apikey", search |-> 1]
  ELSE [pc |-> "done", result |-> "Error: No authentication method available",
        transport |-> "none", search |-> 0]

\* The record kept of a call whose result has been returned is dropped when
\* the next call arrives; so is the record of a login whose listener is
\* closed and whose handlers have all ended.
returned(c, d) == d # c /\ pc[d] = "done"
loginOver(c, d) ==
  /\ returned(c, d)
  /\ listener[d] # "listening"
  /\ \A i \in 1..Len(reqs[d]) : reqs[d][i].at = "done"
forget(f, c, blank) == [d \in Calls |-> IF returned(c, d) THEN blank ELSE f[d]]
forgetLogin(f, c, blank) == [d \in Calls |-> IF loginOver(c, d) THEN blank ELSE f[d]]

\* a google_web_search call arrives: handleWebSearch runs to its first await
handleWebSearch(c, q) ==
  /\ pc[c] = "idle"
  /\ \A d \in Calls : d < c => pc[d] # "idle"
  /\ query' = [forget(query, c, Undef) EXCEPT ![c] = q]
  /\ loaded' = forget(loaded, c, "none")
  /\ setup' = forget(setup, c, NoSetup)
  /\ reqs' = forgetLogin(reqs, c, <<>>)
  /\ webLogin' = forgetLogin(webLogin, c, NoWebLogin)
  /\ listener' = forgetLogin(listener, c, "unbound")
  /\ promise' = forgetLogin(promise, c, "pending")
  /\ exchanged' = forgetLogin(exchanged, c, 0)
  /\ saves' = forgetLogin(saves, c, 0)
  /\ credentials' = [d \in Calls |->
       IF loginOver(c, d) /\ oauthClient # d THEN NoCreds ELSE credentials[d]]
  /\ IF needsInit(model, oauthClient)
     THEN /\ inits' = inits + 1
          /\ IF initBranch(env) = "oauth"
             THEN \* await getOauthClient(), which awaits loadCachedCredentials
                  /\ pc' = [pc EXCEPT ![c] = "loadCachedCredentials"]
                  /\ result' = forget(result, c, "none")
                  /\ transport' = forget(transport, c, "none")
                  /\ net' = forget(net, c, NoNet)
                  /\ UNCHANGED model
             ELSE IF initBranch(env) = "apikey"
             THEN LET a == afterInit(q, TRUE, oauthClient, projectId, env)
                  IN /\ model' = TRUE
                     /\ pc' = [pc EXCEPT ![c] = a.pc]
                     /\ result' = [forget(result, c, "none") EXCEPT ![c] = a.result]
                     /\ transport' = [forget(transport, c, "none") EXCEPT ![c] = a.transport]
                     /\ net' = [forget(net, c, NoNet) EXCEPT ![c]["search"] = @ + a.search]
             ELSE /\ pc' = [pc EXCEPT ![c] = "done"]
                  /\ result' = [forget(result, c, "none") EXCEPT
                                  ![c] = caught(q, "Error: Authentication required")]
                  /\ transport' = forget(transport, c, "none")
                  /\ net' = forget(net, c, NoNet)
                  /\ UNCHANGED model
     ELSE LET a == afterInit(q, model, oauthClient, projectId, env)
          IN /\ pc' = [pc EXCEPT ![c] = a.pc]
             /\ result' = [forget(result, c, "none") EXCEPT ![c] = a.result]
             /\ transport' = [forget(transport, c, "none") EXCEPT ![c] = a.transport]
             /\ net' = [forget(net, c, NoNet) EXCEPT ![c]["search"] = @ + a.search]
             /\ UNCHANGED <<model, inits>>
  /\ UNCHANGED <<env, answer, api, files, oauthClient, projectId, lastSaved, restarts>>

\* the search request of a call completes: response text, empty text, or a
\* failure (non-2xx status, network error, getAccessToken rejecting)
SearchOutcomes == {"text", "empty", "fail"}
searchDone(c, out) ==
  /\ pc[c] = "search"
  /\ pc' = [pc EXCEPT ![c] = "done"]
  /\ result' = [result EXCEPT ![c] =
       IF out = "text" THEN "Web search results"
       ELSE IF out = "empty" THEN "No search results or information found"
       ELSE "Error: search request failed"]
  /\ UNCHANGED <<env, answer, api, files, session, query, transport, net, credentials, loaded, setup,
                 flow, hist>>

(* ----------------------- oauth.ts: getOauthClient --------------------- *)
\* an exception leaves initializeGeminiClient: handleWebSearch catches it and
\* returns an error result
initFails(c, message) ==
  /\ pc' = [pc EXCEPT ![c] = "done"]
  /\ result' = [result EXCEPT ![c] = caught(query[c], message)]

\* getOauthClient: await loadCachedCredentials(client), then return the
\* client (and initializeGeminiClient stores it) or go on to authWithWeb
getOauthClient(c, access, infoOk) ==
  /\ pc[c] = "loadCachedCredentials"
  /\ LET keyFile == keyFileOf(env, credFile, otherFile)
         r == loadCachedCredentials(keyFile, access, infoOk)
     IN /\ loaded' = [loaded EXCEPT ![c] = r]
        /\ credentials' = [credentials EXCEPT ![c] = loadedCredentials(keyFile)]
        /\ net' = [net EXCEPT ![c]["tokeninfo"] =
                     IF callsTokenInfo(keyFile, access) THEN @ + 1 ELSE @]
        /\ IF r = "true"
           THEN /\ oauthClient' = c
                /\ pc' = [pc EXCEPT ![c] = "setupUserProject"]
                /\ UNCHANGED result
           ELSE IF r = "false"
           THEN /\ pc' = [pc EXCEPT ![c] = "authWithWeb"]
                /\ UNCHANGED <<oauthClient, result>>
           ELSE /\ initFails(c, "Error: loadCachedCredentials threw")
                /\ UNCHANGED oauthClient
  /\ UNCHANGED <<env, answer, api, files, model, projectId, query, transport, setup, flow, hist>>

\* the ephemeral ports getAvailablePort may be given; 0 stands for its
\* rejection (the probe server's 'error' event)
Ports == {49152, 49153}

\* authWithWeb: getAvailablePort chooses the port and releases it, the
\* authorization URL is built with that port in its redirect URI, and the
\* callback server is told to listen on it. When the port cannot be bound the
\* server emits 'error', which has no listener: the exception is uncaught and
\* the process ends (index.ts 331-334), the promise left as it is.
authWithWeb(c, port, bound) ==
  /\ pc[c] = "authWithWeb"
  /\ IF port = 0
     THEN /\ initFails(c, "Error: getAvailablePort failed")
          /\ UNCHANGED <<listener, webLogin>>
     ELSE /\ webLogin' = [webLogin EXCEPT ![c] = [redirectPort |-> port, listenPort |-> port]]
          /\ listener' = [listener EXCEPT ![c] = IF bound THEN "listening" ELSE "error"]
          /\ pc' = [pc EXCEPT ![c] = IF bound THEN "open" ELSE "exited"]
          /\ UNCHANGED result
  /\ UNCHANGED <<env, answer, api, files, session, query, transport, net, credentials, loaded,
                 setup, promise, reqs, hist>>

\* await open(webLogin.authUrl): the browser opens, or open rejects and
\* getOauthClient throws
openBrowser(c, opened) ==
  /\ pc[c] = "open"
  /\ IF opened
     THEN /\ pc' = [pc EXCEPT ![c] = "waiting"]
          /\ UNCHANGED result
     ELSE initFails(c, "Error: open failed")
  /\ UNCHANGED <<env, answer, api, files, session, query, transport, net, credentials, loaded, setup,
                 flow, hist>>

\* await webLogin.loginCompletePromise: the promise has settled
loginComplete(c) ==
  /\ pc[c] = "waiting"
  /\ promise[c] # "pending"
  /\ IF promise[c] = "resolved"
     THEN /\ oauthClient' = c
          /\ pc' = [pc EXCEPT ![c] = "setupUserProject"]
          /\ UNCHANGED result
     ELSE /\ initFails(c, "Error: login failed")
          /\ UNCHANGED oauthClient
  /\ UNCHANGED <<env, answer, api, files, model, projectId, query, transport, net, credentials, loaded,
                 setup, flow, hist>>

(* ------------------ oauth.ts: the callback request handler ------------ *)
\* a promise settles once: a later resolve or reject changes nothing
settle(p, v) == IF p = "pending" THEN v ELSE p

\* a handler whose early return for another path skips the close
closesAfterCallbackOnly(b) == b # "Unexpected"

\* finally { server.close() }: whether the handler closes the server when it
\* ends in branch b
closesServer(b) == TRUE

\* what the handler has sent on res when it ends in branch b: a redirect
\* (HTTP_REDIRECT with a Location), a body, or nothing
NoResponseSent == "nothing sent"
SignInFailure == "301 https://developers.google.com/gemini-code-assist/auth_failure_gemini"
SignInSuccess == "301 https://developers.google.com/gemini-code-assist/auth_success_gemini"
responseSent(b) ==
  IF b \in {"Unexpected", "AuthError"} THEN SignInFailure
  ELSE IF b = "CSRF" THEN "200 State mismatch. Possible CSRF attack"
  ELSE IF b = "resolve" THEN SignInSuccess
  ELSE NoResponseSent

\* the requests the listeners have received
received == Cardinality(UNION {{<<c, i>> : i \in 1..Len(reqs[c])} : c \in Calls})

\* an HTTP request reaches the listener: the handler runs to its first await
\* (client.getToken) or to its end
receiveRequest(c, p) ==
  /\ listener[c] = "listening"
  /\ received < MaxRequests
  /\ LET b == handlerBranch(p)
     IN IF b = "getToken"
        THEN /\ reqs' = [reqs EXCEPT ![c] =
                  Append(@, [p |-> p, at |-> "getToken", did |-> "none", tokens |-> NoCreds,
                             res |-> NoResponseSent])]
             /\ net' = [net EXCEPT ![c]["getToken"] = @ + 1]
             /\ UNCHANGED <<listener, promise>>
        ELSE /\ reqs' = [reqs EXCEPT ![c] =
                  Append(@, [p |-> p, at |-> "done", did |-> b, tokens |-> NoCreds,
                             res |-> responseSent(b)])]
             /\ promise' = [promise EXCEPT ![c] = settle(@, b)]
             /\ listener' = [listener EXCEPT ![c] =
                  IF closesServer(b) THEN "closed" ELSE @]
             /\ UNCHANGED net
  /\ UNCHANGED <<env, answer, api, files, session, callv, credentials, loaded, setup, hist,
                 webLogin>>

\* a handler that caches the client's credentials whatever getToken did
savesWhateverExchange(exchangeOk) == TRUE

\* whether the handler goes on to cacheCredentials after client.getToken
savesAfterExchange(exchangeOk) == exchangeOk

\* client.getToken settles for request i: on success the tokens are set on
\* the client and cacheCredentials starts; on failure the handler rejects and
\* closes the server
getTokenDone(c, i, exchangeOk, tokens) ==
  /\ i \in 1..Len(reqs[c])
  /\ reqs[c][i].at = "getToken"
  /\ exchanged' = [exchanged EXCEPT ![c] = IF exchangeOk THEN @ + 1 ELSE @]
  /\ IF savesAfterExchange(exchangeOk)
     THEN /\ credentials' = [credentials EXCEPT ![c] = IF exchangeOk THEN tokens ELSE @]
          /\ reqs' = [reqs EXCEPT ![c][i].at = "cacheCredentials",
                                  ![c][i].tokens = IF exchangeOk THEN tokens ELSE credentials[c]]
          /\ UNCHANGED <<listener, promise>>
     ELSE /\ reqs' = [reqs EXCEPT ![c][i].at = "done", ![c][i].did = "ExchangeFailed"]
          /\ promise' = [promise EXCEPT ![c] = settle(@, "ExchangeFailed")]
          /\ listener' = [listener EXCEPT ![c] = "closed"]
          /\ UNCHANGED credentials
  /\ UNCHANGED <<env, answer, api, files, session, callv, net, loaded, setup, inits, saves, lastSaved, webLogin,
                 restarts>>

\* a handler that resolves whatever the write did
resolvesWhateverSave(writeOk) == "resolved"

\* how the handler settles the promise after await cacheCredentials: resolve()
\* when the write returned, reject(e) from the catch when it threw
settlesAfterSave(writeOk) == IF writeOk THEN "resolved" ELSE "SaveFailed"

\* cacheCredentials settles for request i: the file is written, the handler
\* redirects, resolves and closes the server; or the write fails and the
\* handler rejects and closes the server
cacheCredentialsDone(c, i, writeOk) ==
  /\ i \in 1..Len(reqs[c])
  /\ reqs[c][i].at = "cacheCredentials"
  /\ IF writeOk
     THEN /\ credFile' = cacheCredentials(reqs[c][i].tokens)
          /\ lastSaved' = reqs[c][i].tokens
          /\ saves' = [saves EXCEPT ![c] = @ + 1]
          /\ reqs' = [reqs EXCEPT ![c][i].at = "done", ![c][i].did = "resolve",
                                  ![c][i].res = responseSent("resolve")]
     ELSE /\ reqs' = [reqs EXCEPT ![c][i].at = "done", ![c][i].did = "SaveFailed"]
          /\ UNCHANGED <<credFile, lastSaved, saves>>
  /\ promise' = [promise EXCEPT ![c] = settle(@, settlesAfterSave(writeOk))]
  /\ listener' = [listener EXCEPT ![c] = "closed"]
  /\ UNCHANGED <<env, answer, api, otherFile, configFile, session, callv, net, credentials, loaded, webLogin,
                 setup, inits, exchanged, restarts>>

(* ------------------ index.ts / setup.ts: project setup ---------------- *)
\* this.projectId = await setupUserProject(this.oauthClient), then the rest
\* of handleWebSearch; or setupUserProject throws and the call fails
setupProject(c, d, o, w1, w2) ==
  /\ pc[c] = "setupUserProject"
  /\ LET r == setupUserProject(env.GOOGLE_CLOUD_PROJECT, configFile, d, o, w1, w2)
         cached == IF configFile.exists /\ configFile.parses
                   THEN project_id(configFile) ELSE Undef
         a == afterInit(query[c], model, oauthClient, r.id, env)
     IN /\ configFile' = r.config
        /\ setup' = [setup EXCEPT ![c] =
             [status |-> IF r.thrown THEN "thrown" ELSE "returned",
              id |-> r.id, error |-> r.error, cached |-> cached,
              d |-> d, o |-> IF r.onboard = 1 THEN o ELSE NoResponse,
              w1 |-> IF Truthy(loadCodeAssist(d).project) THEN w1 ELSE TRUE,
              w2 |-> IF r.onboard = 1 THEN w2 ELSE TRUE]]
        /\ IF r.thrown
           THEN /\ initFails(c, r.error)
                /\ net' = [net EXCEPT ![c]["discovery"] = @ + r.discovery,
                                      ![c]["onboard"] = @ + r.onboard]
                /\ UNCHANGED <<projectId, transport>>
           ELSE /\ projectId' = r.id
                /\ pc' = [pc EXCEPT ![c] = a.pc]
                /\ result' = [result EXCEPT ![c] = a.result]
                /\ transport' = [transport EXCEPT ![c] = a.transport]
                /\ net' = [net EXCEPT ![c]["discovery"] = @ + r.discovery,
                                      ![c]["onboard"] = @ + r.onboard,
                                      ![c]["search"] = @ + a.search]
  /\ UNCHANGED <<env, answer, api, credFile, otherFile, model, oauthClient, query, credentials, loaded,
                 flow, hist>>

\* clearCachedCredentialFile, which a caller of oauth.ts may run at any time
clearCachedCredentialFile(rmOk) ==
  LET r == rmIgnoringErrors(credFile, rmOk)
  IN /\ credFile' = r.file
     /\ cleared' = IF r.thrown THEN "thrown" ELSE "done"
     /\ UNCHANGED <<env, answer, otherFile, configFile, session, callv, net, credentials,
                    loaded, setup, flow, hist, reply>>

(* ----------------------- index.ts: the tool surface ------------------- *)
\* a server that lists no tool
NoTools == <<>>

\* the tools of the ListToolsRequestSchema handler
Tools ==
  << [name |-> "google_web_search",
      properties |-> <<[name |-> "query", type |-> "string"]>>,
      required |-> <<"query">>] >>

ToolNames == {"google_web_search", "web_fetch"}

\* tools/list: the handler returns the list and touches nothing
listTools ==
  /\ reply' = [kind |-> "tools", tools |-> Tools, message |-> <<>>]
  /\ UNCHANGED <<env, answer, files, session, callv, net, credentials, loaded, setup, flow,
                 hist, cleared>>

\* tools/call: the search for google_web_search, and for any other name
\* throw new Error(`Tool not found: ${name}`)
callTool(name, c, q) ==
  IF name = "google_web_search"
  THEN handleWebSearch(c, q)
  ELSE /\ reply' = [kind |-> "error", tools |-> <<>>,
                    message |-> <<"Tool not found: ", name>>]
       /\ UNCHANGED <<env, answer, files, session, callv, net, credentials, loaded, setup,
                      flow, hist, cleared>>

(* ------------------------------ the process --------------------------- *)
\* the process ends and a new one starts: the fields and the listeners are
\* gone, the files stay
restart ==
  /\ restarts < MaxRestarts
  /\ NoCallInFlight
  /\ pc[1] = "done"
  /\ restarts' = restarts + 1
  /\ model' = FALSE
  /\ oauthClient' = 0
  /\ projectId' = Undef
  /\ pc' = [c \in Calls |-> "idle"]
  /\ query' = [c \in Calls |-> Undef]
  /\ result' = [c \in Calls |-> "none"]
  /\ transport' = [c \in Calls |-> "none"]
  /\ net' = [c \in Calls |-> NoNet]
  /\ credentials' = [c \in Calls |-> NoCreds]
  /\ loaded' = [c \in Calls |-> "none"]
  /\ setup' = [c \in Calls |-> NoSetup]
  /\ listener' = [c \in Calls |-> "unbound"]
  /\ promise' = [c \in Calls |-> "pending"]
  /\ reqs' = [c \in Calls |-> <<>>]
  /\ webLogin' = [c \in Calls |-> NoWebLogin]
  /\ inits' = 0
  /\ exchanged' = [c \in Calls |-> 0]
  /\ saves' = [c \in Calls |-> 0]
  /\ UNCHANGED <<env, answer, api, files, lastSaved>>

(* --------------------------- specifications --------------------------- *)
\* Spec: the session of one process. Every environment; a few representative
\* callbacks and backend responses.
SessionEnvs ==
  {e \in Envs : /\ e.GOOGLE_CLOUD_PROJECT # "" /\ e.GOOGLE_APPLICATION_CREDENTIALS = Undef
                /\ e.GEMINI_MODEL # Undef => initBranch(e) = "apikey"}
SessionRequests ==
  {p \in RequestParams : p.path /\ p.state # Undef /\ Truthy(p.code) /\ ~Truthy(p.error)}
SessionTokens == { [access_token |-> "at1", refresh_token |-> "rt1"] }
SessionDiscovery ==
  {d \in DiscoveryResponses : d.status \in {200, 500} /\ d.project # "" /\ ~d.onboardingRequired}

Init ==
  /\ InitWith(SessionEnvs, {NoFile, cacheCredentials(EarlierCreds)}, {NoFile}, {NoFile})
  /\ NoAnswer

Next ==
  \/ \E c \in Calls, q \in Arguments : NoCallInFlight /\ handleWebSearch(c, q)
  \/ \E c \in Calls, out \in SearchOutcomes : searchDone(c, out)
  \/ \E c \in Calls, access \in {"token", "throw"}, infoOk \in BOOLEAN :
       getOauthClient(c, access, infoOk)
  \/ \E c \in Calls : authWithWeb(c, 49152, TRUE)
  \/ \E c \in Calls, opened \in BOOLEAN : openBrowser(c, opened)
  \/ \E c \in Calls : loginComplete(c)
  \/ \E c \in Calls, p \in SessionRequests : receiveRequest(c, p)
  \/ \E c \in Calls, i \in 1..MaxRequests, exchangeOk \in BOOLEAN, tokens \in SessionTokens :
       getTokenDone(c, i, exchangeOk, tokens)
  \/ \E c \in Calls, i \in 1..MaxRequests : cacheCredentialsDone(c, i, TRUE)
  \/ \E c \in Calls, d \in SessionDiscovery, o \in OnboardResponses :
       setupProject(c, d, o, TRUE, TRUE)

Spec == Init /\ [][Next]_vars

\* SpecAuth: the login, one search per process as the CLI runs it. OAuth is
\* requested and the project is configured; every callback, every outcome of
\* the token exchange and of the file write.
AuthEnvs ==
  {e \in Envs : /\ e.USE_OAUTH = "true" /\ e.GOOGLE_API_KEY = Undef /\ e.GEMINI_API_KEY = Undef
                /\ e.GOOGLE_CLOUD_PROJECT = "pE" /\ e.GEMINI_MODEL = Undef}
AuthDiscovery ==
  {d \in DiscoveryResponses : d.status = 200 /\ d.project = Undef /\ ~d.onboardingRequired}

InitAuth ==
  /\ InitWith(AuthEnvs, {NoFile, Garbage, cacheCredentials(EarlierCreds)},
              {NoFile, KeyFileText}, {NoFile})
  /\ NoAnswer

NextAuth ==
  \/ NoCallInFlight /\ handleWebSearch(1, "q")
  \/ \E c \in Calls : searchDone(c, "text")
  \/ \E c \in Calls, access \in AccessOutcomes, infoOk \in BOOLEAN :
       getOauthClient(c, access, infoOk)
  \/ \E c \in Calls : authWithWeb(c, 49152, TRUE)
  \/ \E c \in Calls, opened \in BOOLEAN : openBrowser(c, opened)
  \/ \E c \in Calls : loginComplete(c)
  \/ \E c \in Calls, p \in RequestParams : receiveRequest(c, p)
  \/ \E c \in Calls, i \in 1..MaxRequests, exchangeOk \in BOOLEAN, tokens \in TokenSets :
       getTokenDone(c, i, exchangeOk, tokens)
  \/ \E c \in Calls, i \in 1..MaxRequests, writeOk \in BOOLEAN :
       cacheCredentialsDone(c, i, writeOk)
  \/ \E c \in Calls, d \in AuthDiscovery, o \in OnboardResponses :
       setupProject(c, d, o, TRUE, TRUE)
  \/ restart

SpecAuth == InitAuth /\ [][NextAuth]_vars

\* SpecSetup: the project resolution. Valid cached credentials; every
\* GOOGLE_CLOUD_PROJECT, config file, discovery and onboarding response, and
\* outcome of the config writes.
SetupEnvs ==
  {e \in Envs : /\ e.USE_OAUTH = "true" /\ e.GOOGLE_API_KEY = Undef /\ e.GEMINI_API_KEY = Undef
                /\ e.GOOGLE_APPLICATION_CREDENTIALS = Undef /\ e.GEMINI_MODEL = Undef}

InitSetup ==
  /\ InitWith(SetupEnvs, {cacheCredentials(EarlierCreds)}, {NoFile},
              {NoFile, Garbage, ConfigFile(""), ConfigFile("pC")})
  /\ NoAnswer

NextSetup ==
  \/ \E rmOk \in BOOLEAN : clearCachedCredentialFile(rmOk)
  \/ \E c \in Calls : NoCallInFlight /\ handleWebSearch(c, "q")
  \/ \E c \in Calls : searchDone(c, "text")
  \/ \E c \in Calls : getOauthClient(c, "token", TRUE)
  \/ \E c \in Calls, d \in DiscoveryResponses, o \in OnboardResponses,
        w1 \in BOOLEAN, w2 \in BOOLEAN : setupProject(c, d, o, w1, w2)
  \/ restart

SpecSetup == InitSetup /\ [][NextSetup]_vars

(* ------------------------------- claims ------------------------------- *)
\* the requests a listener has received
Requests(c) == {reqs[c][i] : i \in 1..Len(reqs[c])}

\* C1: a callback whose state parameter differs from the generated state
\* makes the handler reject with the state-mismatch error, whatever its
\* error and code parameters are, and client.getToken is not called for it.
C1_StateMismatchRejectsAsCsrf ==
  \A c \in Calls : \A r \in Requests(c) :
    (r.p.path /\ r.p.state # GoodState) => (r.at = "done" /\ r.did = "CSRF")

\* C2: no listener is bound once getOauthClient has returned or thrown.
getOauthClientOver(c) == pc[c] \in {"setupUserProject", "search", "done"}
C2_NoListenerAfterGetOauthClient ==
  \A c \in Calls : getOauthClientOver(c) => listener[c] # "listening"

\* C3: a call with an empty or whitespace-only query ends with the
\* empty-query error, and when it does no request has been sent, no cached
\* credential checked and no login started in that call.
EmptyQueryError == "Error: The query parameter cannot be empty."
C3_EmptyQueryFailsBeforeNetwork ==
  \A c \in Calls :
    /\ (pc[c] = "done" /\ emptyQuery(query[c])) => result[c] = EmptyQueryError
    /\ result[c] = EmptyQueryError =>
         (net[c] = NoNet /\ loaded[c] = "none" /\ listener[c] = "unbound")

\* C4: with no API key and USE_OAUTH not 'true', a search ends with the
\* 'Authentication required' error: no transport is selected, no login is
\* started and no request is sent.
noAuthConfigured == ~Truthy(apiKeyOf(env)) /\ env.USE_OAUTH # "true"
C4_NoAuthConfiguredFails ==
  noAuthConfigured =>
    /\ ~model
    /\ oauthClient = 0
    /\ \A c \in Calls :
         /\ pc[c] = "done" => result[c] = "Error: Authentication required"
         /\ listener[c] = "unbound"
         /\ net[c] = NoNet

\* C5: once cacheCredentials has completed, the next loadCachedCredentials
\* installs on the client the credentials that were saved last.
C5_SaveThenLoadRoundTrip ==
  [][\A c \in Calls :
       (pc[c] = "loadCachedCredentials" /\ pc'[c] # "loadCachedCredentials"
        /\ lastSaved # NoCreds)
       => credentials'[c] = lastSaved]_vars

\* C6: loadCachedCredentials never throws: every failure of the read, the
\* parse, getAccessToken or getTokenInfo makes it return false, and
\* getOauthClient then goes on to the browser login.
C6_LoadNeverThrows ==
  \A c \in Calls :
    /\ loaded[c] \in {"none", "true", "false"}
    /\ loaded[c] = "false" => (pc[c] = "authWithWeb" \/ listener[c] # "unbound")
    /\ loaded[c] = "true" => (oauthClient = c /\ listener[c] = "unbound")
C6_Witness ==
  \E c \in Calls :
    /\ loaded[c] = "false"
    /\ ~keyFileOf(env, credFile, otherFile).parses
    /\ listener[c] = "listening"

\* C7: the credential file changes only by a cacheCredentials that follows a
\* successful token exchange of the same login.
C7_CredFileWrittenAfterExchange ==
  [][credFile' # credFile =>
       \E c \in Calls : saves'[c] = saves[c] + 1 /\ saves'[c] <= exchanged[c]]_vars
C7_Witness ==
  \E c \in Calls :
    /\ saves[c] = 1
    /\ exchanged[c] >= 1
    /\ credFile = cacheCredentials(lastSaved)
    /\ \E r \in Requests(c) : r.did = "ExchangeFailed" \/ r.did = "CSRF"

\* C8: once a transport is selected, no later call runs the initialization
\* again or changes the selection, and every search is sent over it.
selected == IF oauthClient # 0 THEN "oauth" ELSE IF model THEN "apikey" ELSE "none"
C8_TransportFixed ==
  /\ [](\A c \in Calls : transport[c] # "none" => transport[c] = selected)
  /\ [][selected # "none" => (selected' = selected /\ inits' = inits)]_vars
C8_Witness ==
  /\ pc[2] = "done"
  /\ transport[2] = "oauth"
  /\ result[2] = "Error: search request failed"
  /\ inits = 1

\* C9: setupUserProject returns the configured GOOGLE_CLOUD_PROJECT when there
\* is one, else the project_id of the config file when there is one.
C9_ProjectPrecedence ==
  \A c \in Calls :
    setup[c].status = "returned" =>
      /\ Truthy(env.GOOGLE_CLOUD_PROJECT) => setup[c].id = env.GOOGLE_CLOUD_PROJECT
      /\ (~Truthy(env.GOOGLE_CLOUD_PROJECT) /\ Truthy(setup[c].cached))
           => setup[c].id = setup[c].cached

\* C10: setupUserProject returns a non-empty id or throws; when neither the
\* configuration, the config file, discovery nor onboarding gives an id and
\* no request fails, it throws 'GOOGLE_CLOUD_PROJECT is required'.
noIdAnywhere(c) ==
  /\ ~Truthy(env.GOOGLE_CLOUD_PROJECT)
  /\ ~Truthy(setup[c].cached)
  /\ ~loadCodeAssist(setup[c].d).thrown
  /\ ~Truthy(loadCodeAssist(setup[c].d).project)
  /\ loadCodeAssist(setup[c].d).onboardingRequired =>
       (setup[c].o.status = 200 /\ ~Truthy(setup[c].o.respId) /\ ~Truthy(setup[c].o.topId))
C10_ProjectIdOrError ==
  \A c \in Calls :
    /\ setup[c].status = "returned" => Truthy(setup[c].id)
    /\ setup[c].status = "thrown" => setup[c].error # ""
    /\ (setup[c].status # "none" /\ noIdAnywhere(c)) =>
         (setup[c].status = "thrown" /\ setup[c].error = "GOOGLE_CLOUD_PROJECT is required")
C10_Witness ==
  \E c \in Calls :
    /\ setup[c].status = "thrown"
    /\ setup[c].error = "GOOGLE_CLOUD_PROJECT is required"
    /\ setup[c].o.status = 200

(* --------------------- index.ts: the citation merge ------------------- *)
\* A string is the sequence of its characters; a title, a URI, a decimal
\* number and a fixed caption are written as one element each.

\* the longest answer text, chunk list and support list
MaxLen == 3
MaxChunks == 2
MaxSupports == 3
\* how many times one answer is formatted
MaxRuns == 2

Letters == <<"a", "b", "c", "d", "e", "f">>
Text(n) == [i \in 1..n |-> Letters[i]]
Texts == {<<>>, <<" ", "\n">>, Text(MaxLen)}

SeqsUpTo(S, n) == UNION {[1..k -> S] : k \in 0..n}

RECURSIVE Flatten(_)
Flatten(ss) == IF ss = <<>> THEN <<>> ELSE Head(ss) \o Flatten(Tail(ss))

\* text.split('') and chars.join('')
split(text) == [i \in 1..Len(text) |-> <<text[i]>>]
join(arr) == Flatten(arr)

\* String.prototype.trim() on the characters used here
trimmedEmpty(text) == \A i \in 1..Len(text) : text[i] \in {" ", "\n", "\t"}

\* an optional value of another type than string: absent, or present
None == <<>>
Some(x) == <<x>>
the(o) == o[1]

\* GroundingChunkItem, read as source.web?.title and source.web?.uri: a
\* chunk without web reads like one whose web has neither
Chunks ==
  << [web |-> [title |-> "Wiki", uri |-> "https://wiki.example"]],
     [web |-> [title |-> Undef, uri |-> "https://b.example"]],
     [web |-> [title |-> "", uri |-> Undef]],
     [web |-> [title |-> "News", uri |-> ""]] >>
\* no chunk list, an empty one, and the lists of the first n chunks
SourceLists == {None} \cup {Some(SubSeq(Chunks, 1, n)) : n \in 0..MaxChunks}

\* GroundingSupportItem: segment.endIndex is whatever the backend sent
EndIndices == (0 - 1)..(MaxLen + 1)
Supports ==
  { [segment |-> Some([endIndex |-> e]), groundingChunkIndices |-> Some(<<0>>)] :
      e \in EndIndices }
  \cup { [segment |-> Some([endIndex |-> 1]), groundingChunkIndices |-> Some(<<1, 0>>)],
         [segment |-> None, groundingChunkIndices |-> Some(<<0>>)],
         [segment |-> Some([endIndex |-> 1]), groundingChunkIndices |-> None],
         [segment |-> Some([endIndex |-> 1]), groundingChunkIndices |-> Some(<<>>)] }
SupportLists == {None} \cup {Some(l) : l \in SeqsUpTo(Supports, MaxSupports)}

\* the line without the defaults for a missing title or uri
sourceLineAsSent(source, index) ==
  <<"[", ToString(index + 1), "]", " ", source.web.title, " ", "(", source.web.uri, ")">>

\* `[${index + 1}] ${title} (${uri})`
sourceLine(source, index) ==
  LET title == Or(source.web.title, "Untitled")
      uri == Or(source.web.uri, "No URI")
  IN <<"[", ToString(index + 1), "]", " ", title, " ", "(", uri, ")">>

sourceListFormatted(srcs) == [n \in 1..Len(srcs) |-> sourceLine(srcs[n], n - 1)]

RECURSIVE joinLines(_)
joinLines(lines) ==
  IF lines = <<>> THEN <<>>
  ELSE IF Len(lines) = 1 THEN lines[1]
  ELSE lines[1] \o <<"\n">> \o joinLines(Tail(lines))

\* the chunk's 0-based position is shown as it is
citationMarkerZeroBased(indices) ==
  Flatten([k \in 1..Len(indices) |-> <<"[", ToString(indices[k]), "]">>])

\* groundingChunkIndices.map(i => `[${i + 1}]`).join('')
citationMarker(indices) ==
  Flatten([k \in 1..Len(indices) |-> <<"[", ToString(indices[k] + 1), "]">>])

\* the insertions pushed by groundingSupports.forEach, in the supports' order
RECURSIVE insertionsOf(_)
insertionsOf(supports) ==
  IF supports = <<>> THEN <<>>
  ELSE LET support == Head(supports)
           rest == insertionsOf(Tail(supports))
       IN IF support.segment # None /\ support.groundingChunkIndices # None
          THEN <<[index |-> the(support.segment).endIndex,
                  marker |-> citationMarker(the(support.groundingChunkIndices))]>> \o rest
          ELSE rest

\* a sort whose order among equal indices changes from one run to the next
insertSortedByRun(sorted, x) ==
  LET k == IF Len(texts) = 0
           THEN Cardinality({i \in 1..Len(sorted) : sorted[i].index >= x.index})
           ELSE Cardinality({i \in 1..Len(sorted) : sorted[i].index > x.index})
  IN SubSeq(sorted, 1, k) \o <<x>> \o SubSeq(sorted, k + 1, Len(sorted))

\* where Array.prototype.sort puts one more element: after the elements
\* that do not sort behind it (the sort is stable)
insertSorted(sorted, x) ==
  LET k == Cardinality({i \in 1..Len(sorted) : sorted[i].index >= x.index})
  IN SubSeq(sorted, 1, k) \o <<x>> \o SubSeq(sorted, k + 1, Len(sorted))

\* unsorted: the insertions are applied in the supports' order
keepOrder(insertions) == insertions

\* insertions.sort((a, b) => b.index - a.index)
RECURSIVE sortInsertions(_)
sortInsertions(insertions) ==
  IF insertions = <<>> THEN <<>>
  ELSE insertSorted(sortInsertions(SubSeq(insertions, 1, Len(insertions) - 1)),
                    insertions[Len(insertions)])

\* a splice that deletes the element at the start: arr.splice(index, 1, item)
spliceReplacing(arr, index, item) ==
  LET len == Len(arr)
      start == IF index < 0
               THEN (IF len + index > 0 THEN len + index ELSE 0)
               ELSE (IF index < len THEN index ELSE len)
  IN SubSeq(arr, 1, start) \o <<item>> \o SubSeq(arr, start + 2, len)

\* arr.splice(index, 0, item): one element is added, whatever its length;
\* a negative index counts from the end, and the start is clamped to the array
splice(arr, index, item) ==
  LET len == Len(arr)
      start == IF index < 0
               THEN (IF len + index > 0 THEN len + index ELSE 0)
               ELSE (IF index < len THEN index ELSE len)
  IN SubSeq(arr, 1, start) \o <<item>> \o SubSeq(arr, start + 1, len)

\* insertions.forEach(insertion => responseChars.splice(...))
RECURSIVE applyInsertions(_, _)
applyInsertions(responseChars, insertions) ==
  IF insertions = <<>> THEN responseChars
  ELSE applyInsertions(splice(responseChars, Head(insertions).index, Head(insertions).marker),
                       Tail(insertions))

SourcesCaption == <<"\n", "\n", "Sources:", "\n">>

\* the markers are inserted whether or not there are chunks
mergeCitationsUnguarded(text, srcs, supports) ==
  LET marked ==
        IF supports # None /\ Len(the(supports)) > 0
        THEN join(applyInsertions(split(text), sortInsertions(insertionsOf(the(supports)))))
        ELSE text
  IN IF srcs # None /\ Len(the(srcs)) > 0
     THEN marked \o SourcesCaption \o joinLines(sourceListFormatted(the(srcs)))
     ELSE marked

\* modifiedResponseText of handleWebSearch
mergeCitations(text, srcs, supports) ==
  IF srcs # None /\ Len(the(srcs)) > 0
  THEN LET marked ==
             IF supports # None /\ Len(the(supports)) > 0
             THEN join(applyInsertions(split(text),
                                       sortInsertions(insertionsOf(the(supports)))))
             ELSE text
       IN marked \o SourcesCaption \o joinLines(sourceListFormatted(the(srcs)))
  ELSE text

ResultsCaption(q) == <<"Web search results for \"", q, "\":", "\n", "\n">>

\* a handler without the check for an empty answer
toolResultUnchecked(q, text, srcs, supports) ==
  [isError |-> FALSE, found |-> TRUE,
   text |-> ResultsCaption(q) \o mergeCitations(text, srcs, supports)]

\* the tool result handleWebSearch builds from the backend's answer
toolResult(q, text, srcs, supports) ==
  IF text = <<>> \/ trimmedEmpty(text)
  THEN [isError |-> FALSE, found |-> FALSE,
        text |-> <<"No search results or information found for query: \"", q, "\"">>]
  ELSE [isError |-> FALSE, found |-> TRUE,
        text |-> ResultsCaption(q) \o mergeCitations(text, srcs, supports)]

\* a CLI whose merge sorts nothing
modifiedResponseTextCliUnsorted(text, srcs, supports) ==
  IF srcs # None /\ Len(the(srcs)) > 0
  THEN LET marked ==
             IF supports # None /\ Len(the(supports)) > 0
             THEN join(applyInsertions(split(text), insertionsOf(the(supports))))
             ELSE text
       IN marked \o SourcesCaption \o joinLines(sourceListFormatted(the(srcs)))
  ELSE text

\* cli.ts: modifiedResponseText of GoogleSearchCLI.search
modifiedResponseTextCli(text, srcs, supports) ==
  LET sourceLines == IF srcs # None /\ Len(the(srcs)) > 0
                     THEN sourceListFormatted(the(srcs)) ELSE <<>>
      marked ==
        IF srcs # None /\ Len(the(srcs)) > 0
        THEN IF supports # None /\ Len(the(supports)) > 0
             THEN join(applyInsertions(split(text),
                                       sortInsertions(insertionsOf(the(supports)))))
             ELSE text
        ELSE text
  IN IF srcs # None /\ Len(the(srcs)) > 0 /\ Len(sourceLines) > 0
     THEN marked \o SourcesCaption \o joinLines(sourceLines)
     ELSE marked

\* GoogleSearchCLI.search from the answer on: what it prints with console.log
\* and the status the process ends with once main() has returned
search(q, text, srcs, supports) ==
  IF text = <<>> \/ trimmedEmpty(text)
  THEN [out |-> <<"No search results or information found for query: \"", q, "\"">>,
        exit |-> 0]
  ELSE [out |-> ResultsCaption(q) \o modifiedResponseTextCli(text, srcs, supports),
        exit |-> 0]

\* index-codeassist.ts: modifiedResponseText of its handleWebSearch
modifiedResponseTextCodeAssist(text, srcs, supports) ==
  LET marked ==
        IF srcs # None /\ Len(the(srcs)) > 0
             /\ supports # None /\ Len(the(supports)) > 0
        THEN join(applyInsertions(split(text), sortInsertions(insertionsOf(the(supports)))))
        ELSE text
      sourceLines == IF srcs # None /\ Len(the(srcs)) > 0
                     THEN sourceListFormatted(the(srcs)) ELSE <<>>
  IN IF srcs # None /\ Len(the(srcs)) > 0 /\ Len(sourceLines) > 0
     THEN marked \o SourcesCaption \o joinLines(sourceLines)
     ELSE marked

\* `Web search results for "${args.query}" (via ${authMethod}):\n\n`
AuthMethod(useCodeAssist) ==
  IF useCodeAssist THEN "Code Assist API (OAuth)" ELSE "Gemini API (API Key)"
ResultsCaptionVia(q, useCodeAssist) ==
  <<"Web search results for \"", q, "\" (via ", AuthMethod(useCodeAssist), "):", "\n", "\n">>

\* the tool result the handleWebSearch of index-codeassist.ts builds
toolResultCodeAssist(q, text, srcs, supports, useCodeAssist) ==
  IF text = <<>> \/ trimmedEmpty(text)
  THEN [isError |-> FALSE, found |-> FALSE,
        text |-> <<"No search results or information found for query: \"", q, "\"">>]
  ELSE [isError |-> FALSE, found |-> TRUE,
        text |-> ResultsCaptionVia(q, useCodeAssist)
                   \o modifiedResponseTextCodeAssist(text, srcs, supports)]

\* handleWebSearch and the CLI's search from the answer on: one more run over
\* the same answer
formatAnswer ==
  /\ Len(texts) < MaxRuns
  /\ texts' = Append(texts, toolResult("q", responseText, sources, groundingSupports))
  /\ printed' = Append(printed, search("q", responseText, sources, groundingSupports))
  /\ assisted' = Append(assisted,
       toolResultCodeAssist("q", responseText, sources, groundingSupports, useOAuth(env)))
  /\ UNCHANGED <<env, files, session, callv, net, credentials, loaded, setup, flow, hist,
                 responseText, sources, groundingSupports, api>>

\* the answers of the backend: every text, chunk list and support list
MergeEnvs == { e \in Envs : e.GOOGLE_API_KEY = "k1" /\ e.GEMINI_API_KEY = Undef
                            /\ e.USE_OAUTH = Undef /\ e.GOOGLE_CLOUD_PROJECT = Undef
                            /\ e.GOOGLE_APPLICATION_CREDENTIALS = Undef
                            /\ e.GEMINI_MODEL = Undef }
InitMerge ==
  /\ InitWith(MergeEnvs, {NoFile}, {NoFile}, {NoFile})
  /\ responseText \in Texts
  /\ sources \in SourceLists
  /\ groundingSupports \in SupportLists
  /\ texts = <<>>
  /\ printed = <<>>
  /\ assisted = <<>>

NextMerge == formatAnswer

SpecMerge == InitMerge /\ [][NextMerge]_vars

\* SpecStack: the merge on supports that share end indices. The answer text
\* has MaxLen letters and two chunks; every support cites the first or the
\* second chunk at any end index, inside the text or not.
StackEndIndices == EndIndices \cup {0 - (MaxLen + 1)}
StackSupports ==
  { [segment |-> Some([endIndex |-> e]), groundingChunkIndices |-> Some(<<i>>)] :
      e \in StackEndIndices, i \in 0..1 }
InitStack ==
  /\ InitWith(MergeEnvs, {NoFile}, {NoFile}, {NoFile})
  /\ responseText = Text(MaxLen)
  /\ sources = Some(SubSeq(Chunks, 1, 2))
  /\ groundingSupports \in {Some(l) : l \in SeqsUpTo(StackSupports, MaxSupports)}
  /\ texts = <<>>
  /\ printed = <<>>
  /\ assisted = <<>>

SpecStack == InitStack /\ [][NextMerge]_vars

(* --------------------------- claims: the merge ------------------------ *)
Range(f) == {f[i] : i \in DOMAIN f}
lettersOf(t) == SelectSeq(t, LAMBDA ch : ch \in Range(Letters))

\* the markers the merge inserts into the answer held in the state
markers ==
  IF sources # None /\ Len(the(sources)) > 0 /\ groundingSupports # None
  THEN insertionsOf(the(groundingSupports)) ELSE <<>>

\* the run that has just ended, if any: every run is looked at when it ends
lastRun == {Len(texts)} \ {0}

\* the text of run r after the caption that precedes the merged text
merged(r) == SubSeq(texts[r].text, Len(ResultsCaption("q")) + 1, Len(texts[r].text))

\* the markers' end indices are distinct and lie within the answer text
distinctInRange ==
  /\ \A i, j \in 1..Len(markers) : i # j => markers[i].index # markers[j].index
  /\ \A i \in 1..Len(markers) : markers[i].index \in 0..Len(responseText)

RECURSIVE SumLen(_)
SumLen(S) == IF S = {} THEN 0
             ELSE LET x == CHOOSE y \in S : TRUE IN Len(x.marker) + SumLen(S \ {x})

\* where marker i starts in the merged text when no marker displaces another:
\* after its index characters and after the markers of smaller index
offsetOf(i) ==
  markers[i].index
    + SumLen({ [k |-> j, marker |-> markers[j].marker] :
                 j \in {n \in 1..Len(markers) : markers[n].index < markers[i].index} })

\* C11: when the markers' end indices are distinct and within the text, in
\* whatever order the supports come, every marker stands in the merged text
\* immediately after the first endIndex characters of the answer text
C11_MarkersAtTheirOffsets ==
  \A r \in lastRun :
    (texts[r].found /\ distinctInRange) =>
      LET m == merged(r)
          ms == markers
      IN \A i \in 1..Len(ms) :
           LET at == offsetOf(i)
           IN /\ SubSeq(m, at + 1, at + Len(ms[i].marker)) = ms[i].marker
              /\ lettersOf(SubSeq(m, 1, at)) = SubSeq(responseText, 1, ms[i].index)

\* three markers at 1, 3 and 2, given in neither ascending nor descending order
C11_Witness ==
  /\ Len(texts) > 0 /\ texts[1].found /\ distinctInRange
  /\ Len(markers) = 3
  /\ markers[1].index = 1 /\ markers[2].index = 3 /\ markers[3].index = 2
  /\ \A i \in 1..3 : markers[i].marker # <<>>

\* the merged text of run r without the source list: what precedes the first
\* line break (the answer texts have none)
firstBreak(t) ==
  IF \E i \in 1..Len(t) : t[i] = "\n"
  THEN CHOOSE i \in 1..Len(t) : t[i] = "\n" /\ \A j \in 1..(i - 1) : t[j] # "\n"
  ELSE Len(t) + 1
body(r) == SubSeq(merged(r), 1, firstBreak(merged(r)) - 1)

count(t, ch) == Cardinality({i \in 1..Len(t) : t[i] = ch})

\* "[i1+1]...[ik+1]" written out character by character
markerText(ix) ==
  [n \in 1..(3 * Len(ix)) |->
     IF n % 3 = 1 THEN "["
     ELSE IF n % 3 = 2 THEN ToString(ix[(n + 1) \div 3] + 1)
     ELSE "]"]

supportList == IF groundingSupports = None THEN <<>> ELSE the(groundingSupports)
marking(k) == supportList[k].segment # None /\ supportList[k].groundingChunkIndices # None

RECURSIVE SumOver(_, _)
SumOver(f, S) == IF S = {} THEN 0
                 ELSE LET x == CHOOSE y \in S : TRUE IN f[x] + SumOver(f, S \ {x})

\* run r shows one marker per support that has a segment and chunk indices,
\* at its end index when that lies within the text, and no other marker
markerPerSupport(r) ==
  LET b == body(r) IN
  /\ \A k \in {n \in 1..Len(supportList) : marking(n)} :
       LET m == markerText(the(supportList[k].groundingChunkIndices))
           e == the(supportList[k].segment).endIndex
       IN \E p \in 0..(Len(b) - Len(m)) :
            /\ SubSeq(b, p + 1, p + Len(m)) = m
            /\ e \in 0..Len(responseText) =>
                 lettersOf(SubSeq(b, 1, p)) = SubSeq(responseText, 1, e)
  /\ count(b, "[")
       = SumOver([k \in 1..Len(supportList) |->
                    IF marking(k) THEN Len(the(supportList[k].groundingChunkIndices)) ELSE 0],
                 1..Len(supportList))

\* C12 as stated: every support with a segment and a chunk-index list gets
\* exactly one marker "[i1+1]...[ik+1]" at its end index, and a support
\* without segment or without chunk indices gets none
C12_MarkerPerSupport ==
  \A r \in 1..Len(texts) : texts[r].found => markerPerSupport(r)

\* C12, amended: with a non-empty chunk list, every support with a segment
\* and a chunk-index list gets exactly one marker "[i1+1]...[ik+1]" at its
\* end index, and a support without segment or chunk indices gets none
C12_MarkerPerSupportWithChunks ==
  \A r \in lastRun :
    (texts[r].found /\ sources # None /\ Len(the(sources)) > 0) => markerPerSupport(r)

\* the spec's scenario on the text "abc": one support ending at the end of
\* the text with indices [0], one chunk
C12_Witness ==
  /\ Len(texts) > 0
  /\ responseText = Text(3)
  /\ sources = Some(<<[web |-> [title |-> "Wiki", uri |-> "https://wiki.example"]]>>)
  /\ groundingSupports
       = Some(<<[segment |-> Some([endIndex |-> 3]), groundingChunkIndices |-> Some(<<0>>)]>>)
  /\ merged(1) = <<"a", "b", "c", "[", "1", "]", "\n", "\n", "Sources:", "\n",
                   "[", "1", "]", " ", "Wiki", " ", "(", "https://wiki.example", ")">>

\* the source list of run r: the merged text from its first line break on
sourceList(r) == SubSeq(merged(r), firstBreak(merged(r)), Len(merged(r)))

chunkList == IF sources = None THEN <<>> ELSE the(sources)
noSupports == groundingSupports = None \/ the(groundingSupports) = <<>>

\* line n of the list t is "[n] <title> (<uri>)" for chunk n, with the
\* defaults for a missing title and a missing uri
isSourceLine(t, n) ==
  LET at == 4 + 10 * (n - 1)
      web == chunkList[n].web
  IN /\ SubSeq(t, at + 1, at + 4) = <<"[", ToString(n), "]", " ">>
     /\ t[at + 5] = (IF web.title \in {Undef, ""} THEN "Untitled" ELSE web.title)
     /\ SubSeq(t, at + 6, at + 7) = <<" ", "(">>
     /\ t[at + 8] = (IF web.uri \in {Undef, ""} THEN "No URI" ELSE web.uri)
     /\ t[at + 9] = ")"
     /\ n < Len(chunkList) => t[at + 10] = "\n"

C14_NoChunksTextUnchanged ==
  \A r \in lastRun :
    (texts[r].found /\ Len(chunkList) = 0) => merged(r) = responseText

\* an empty chunk list with a support that has a segment and chunk indices
C14_Witness ==
  /\ Len(texts) > 0 /\ texts[1].found
  /\ sources = Some(<<>>)
  /\ \E k \in 1..Len(supportList) :
       marking(k) /\ the(supportList[k].groundingChunkIndices) # <<>>

C16_NoExceptionEscapes ==
  \A c \in Calls : pc[c] = "done" => result[c] # TypeErrorThrown

\* C17: no retry: one call sends at most one search request, and its
\* initialization at most one project discovery, one onboarding and one
\* token exchange; a failed search is the error result of that call
C17_NoRetry ==
  \A c \in Calls :
    /\ \A op \in {"search", "discovery", "onboard", "getToken"} : net[c][op] <= 1
    /\ (pc[c] = "done" /\ result[c] = "Error: search request failed") => net[c]["search"] = 1

\* SpecConcurrent: the MCP server with a client that does not wait: a call
\* may arrive while another is between its start and its result. OAuth with
\* the project configured, or an API key; valid callbacks only.
ConcurrentEnvs ==
  {e \in AuthEnvs : e.GOOGLE_APPLICATION_CREDENTIALS = Undef}
  \cup MergeEnvs
ConcurrentRequests ==
  {p \in RequestParams : p.path /\ p.state = GoodState /\ Truthy(p.code) /\ ~Truthy(p.error)}

InitConcurrent ==
  /\ InitWith(ConcurrentEnvs, {NoFile, cacheCredentials(EarlierCreds)}, {NoFile}, {NoFile})
  /\ NoAnswer

NextConcurrent ==
  \/ \E c \in Calls : handleWebSearch(c, "q")
  \/ \E c \in Calls, out \in SearchOutcomes : searchDone(c, out)
  \/ \E c \in Calls, infoOk \in BOOLEAN : getOauthClient(c, "token", infoOk)
  \/ \E c \in Calls : authWithWeb(c, 49152, TRUE)
  \/ \E c \in Calls, opened \in BOOLEAN : openBrowser(c, opened)
  \/ \E c \in Calls : loginComplete(c)
  \/ \E c \in Calls, p \in ConcurrentRequests : receiveRequest(c, p)
  \/ \E c \in Calls, i \in 1..MaxRequests, exchangeOk \in BOOLEAN, tokens \in SessionTokens :
       getTokenDone(c, i, exchangeOk, tokens)
  \/ \E c \in Calls, i \in 1..MaxRequests : cacheCredentialsDone(c, i, TRUE)
  \/ \E c \in Calls, d \in AuthDiscovery, o \in OnboardResponses :
       setupProject(c, d, o, TRUE, TRUE)

SpecConcurrent == InitConcurrent /\ [][NextConcurrent]_vars

\* the loopback listeners that are bound and awaiting a callback
flowsInFlight == {c \in Calls : listener[c] = "listening"}

\* C18: at most one loopback authorization flow is in flight in a process
\* at any time, also when a second call arrives before the first
\* initialization has completed
C18_OneFlowAtATime == Cardinality(flowsInFlight) <= 1

\* C19: a loopback listener services one request only: no second request is
\* handled, so one authorization attempt makes at most one token exchange
\* and at most one save of the credentials
C19_OneCallbackServiced ==
  \A c \in Calls : Len(reqs[c]) <= 1 /\ exchanged[c] <= 1 /\ saves[c] <= 1

\* C20: the model of the API-key transport is the value of GEMINI_MODEL when
\* that variable is set, and gemini-2.0-flash-exp when it is not
C20_ModelFromEnvironment ==
  \A c \in Calls :
    transport[c] = "apikey" =>
      getGenerativeModel(env).model
        = (IF Truthy(env.GEMINI_MODEL) THEN env.GEMINI_MODEL ELSE "gemini-2.0-flash-exp")

(* -------------------- claims: the empty answer, ties ------------------ *)
emptyAnswer == \A i \in 1..Len(responseText) : responseText[i] \in {" ", "\n", "\t"}
NothingFound == <<"No search results or information found for query: \"", "q", "\"">>

\* C22: an empty or whitespace-only answer text gives the plain message
\* 'No search results or information found for query: ...', not flagged as
\* an error, without markers or source list even when chunks are present,
\* and the CLI prints the same and ends with status 0
C22_EmptyAnswerIsInformational ==
  \A r \in lastRun :
    emptyAnswer =>
      /\ texts[r].text = NothingFound /\ ~texts[r].isError
      /\ printed[r].out = NothingFound /\ printed[r].exit = 0

\* a whitespace-only answer that comes with chunks and a support
C22_Witness ==
  /\ Len(texts) > 0 /\ Len(printed) > 0
  /\ responseText # <<>> /\ emptyAnswer
  /\ Len(chunkList) > 0
  /\ \E k \in 1..Len(supportList) : marking(k)

(* ------------------------ claims: the tool surface -------------------- *)
\* SpecTools: the requests of an MCP client. tools/list and calls of a tool
\* the server does not have arrive in any state, also during a search or a
\* login; the searches come one after the other. OAuth with the project
\* configured, or an API key; valid callbacks only.
InitTools ==
  /\ InitWith(ConcurrentEnvs, {NoFile, cacheCredentials(EarlierCreds)}, {NoFile}, {NoFile})
  /\ NoAnswer

NextTools ==
  \/ listTools
  \/ \E c \in Calls : NoCallInFlight /\ callTool("google_web_search", c, "q")
  \/ \E c \in Calls, name \in ToolNames \ {"google_web_search"} : callTool(name, c, "q")
  \/ \E c \in Calls, out \in SearchOutcomes : searchDone(c, out)
  \/ \E c \in Calls, infoOk \in BOOLEAN : getOauthClient(c, "token", infoOk)
  \/ \E c \in Calls : authWithWeb(c, 49152, TRUE)
  \/ \E c \in Calls : openBrowser(c, TRUE)
  \/ \E c \in Calls : loginComplete(c)
  \/ \E c \in Calls, p \in ConcurrentRequests : receiveRequest(c, p)
  \/ \E c \in Calls, i \in 1..MaxRequests, tokens \in SessionTokens :
       getTokenDone(c, i, TRUE, tokens)
  \/ \E c \in Calls, i \in 1..MaxRequests : cacheCredentialsDone(c, i, TRUE)
  \/ \E c \in Calls, d \in AuthDiscovery, o \in OnboardResponses :
       setupProject(c, d, o, TRUE, TRUE)

SpecTools == InitTools /\ [][NextTools]_vars

\* everything but the response to tools/list and to unknown tools
sessionState ==
  <<env, files, session, callv, net, credentials, loaded, setup, flow, hist, answer, cleared>>

\* C21: tools/list answers with exactly one tool, google_web_search, with
\* the required string parameter query, and changes nothing in any session
\* state: no initialization, no login, no request; a call of another tool
\* fails with 'Tool not found' and starts no search
C21_ListToolsTouchesNothing ==
  /\ [](reply.kind = "tools" =>
          /\ Len(reply.tools) = 1
          /\ reply.tools[1].name = "google_web_search"
          /\ reply.tools[1].required = <<"query">>
          /\ reply.tools[1].properties = <<[name |-> "query", type |-> "string"]>>)
  /\ [](reply.kind = "error" => reply.message = <<"Tool not found: ", "web_fetch">>)
  /\ [][reply' # reply => (reply'.kind \in {"tools", "error"} /\ sessionState' = sessionState)]_vars

\* the tools are listed while a login is in flight and before any client is set
C21_Witness ==
  /\ reply.kind = "tools"
  /\ \E c \in Calls : listener[c] = "listening"
  /\ ~model /\ oauthClient = 0

(* ---------------------- claims: the credential file ------------------- *)
\* C23: clearCachedCredentialFile never fails, with or without a file (a
\* second call changes nothing the first has left), it touches nothing but
\* the credential file, and a load from the fixed path after the removal
\* finds no credentials
C23_ClearIsBestEffort ==
  /\ [](cleared # "thrown")
  /\ [][cleared' # cleared \/ (credFile' = NoFile /\ credFile # NoFile) =>
          /\ cleared' = "done"
          /\ credFile' \in {NoFile, credFile}
          /\ credFile = NoFile => credFile' = NoFile
          /\ UNCHANGED <<env, answer, otherFile, configFile, session, callv, net,
                         credentials, loaded, setup, flow, hist, reply>>]_vars
  /\ [][\A c \in Calls :
          (pc[c] = "loadCachedCredentials" /\ pc'[c] # "loadCachedCredentials"
             /\ cleared = "done" /\ credFile = NoFile)
            => (loaded'[c] = "false" /\ credentials'[c] = NoCreds)]_vars

\* the file has been removed, the function has run again on no file, and a
\* call has then loaded from the fixed path
C23_Witness ==
  /\ cleared = "done" /\ credFile = NoFile
  /\ \E c \in Calls : loaded[c] = "false" /\ pc[c] = "authWithWeb"

(* ------------------------- claims: the login flow --------------------- *)
\* the requests of call c whose handler has called resolve()
resolvedBy(c) == {i \in 1..Len(reqs[c]) : reqs[c][i].did = "resolve"}

\* request i of call c has ended in this step
endsNow(c, i) ==
  /\ i \in 1..Len(reqs'[c])
  /\ reqs'[c][i].at = "done"
  /\ i \in 1..Len(reqs[c]) => reqs[c][i].at # "done"

\* C24: the login promise settles only in a step of a received request; a
\* request reaches the save only from a successful token exchange that set the
\* credentials; the promise is resolved only in the step that has written
\* those credentials to the cache file; a failing save rejects the promise
C24_ResolveAfterSave ==
  /\ [](\A c \in Calls : promise[c] = "resolved" =>
          (resolvedBy(c) # {} /\ saves[c] >= 1 /\ exchanged[c] >= 1 /\ net[c]["getToken"] >= 1))
  /\ [][\A c \in Calls :
          (promise[c] = "pending" /\ promise'[c] # "pending") =>
             \E i \in 1..MaxRequests : endsNow(c, i)]_vars
  /\ [][\A c \in Calls : \A i \in 1..MaxRequests :
          (i \in 1..Len(reqs[c]) /\ i \in 1..Len(reqs'[c])
             /\ reqs[c][i].at # "cacheCredentials" /\ reqs'[c][i].at = "cacheCredentials") =>
             /\ reqs[c][i].at = "getToken"
             /\ exchanged'[c] = exchanged[c] + 1
             /\ credentials'[c] = reqs'[c][i].tokens
             /\ promise'[c] = promise[c]
             /\ credFile' = credFile]_vars
  /\ [][\A c \in Calls :
          (promise[c] = "pending" /\ promise'[c] = "resolved") =>
             \E i \in 1..Len(reqs[c]) :
                /\ reqs[c][i].at = "cacheCredentials"
                /\ endsNow(c, i)
                /\ credFile' = cacheCredentials(reqs[c][i].tokens)
                /\ saves'[c] = saves[c] + 1]_vars
  /\ [][\A c \in Calls : \A i \in 1..MaxRequests :
          (endsNow(c, i) /\ reqs'[c][i].did = "SaveFailed") =>
             /\ credFile' = credFile
             /\ promise[c] = "pending" => promise'[c] = "SaveFailed"
             /\ promise'[c] # "pending"]_vars

\* a callback's exchange succeeded, its credentials are in the cache file and
\* the promise is resolved
C24_Witness ==
  \E c \in Calls :
    /\ promise[c] = "resolved"
    /\ resolvedBy(c) # {}
    /\ credFile = cacheCredentials(lastSaved)
    /\ credentials[c] = lastSaved

\* a save has failed and the promise is rejected
C24_SaveFailedReached == \E c \in Calls : promise[c] = "SaveFailed"

\* the request that call c receives in this step, if it receives one
arrives(c, p) ==
  /\ Len(reqs'[c]) = Len(reqs[c]) + 1
  /\ reqs'[c][Len(reqs'[c])].p = p

\* a request that carries an error, or no code
refused(p) == Truthy(p.error) \/ ~Truthy(p.code)

\* C25: a request with an `error` parameter or without a `code` ends in the
\* step that receives it: the promise is rejected, the token endpoint is not
\* called, and neither the client's credentials nor the cache file change;
\* such a request is never at the exchange or the save and never resolves
C25_RefusedCallbackRejects ==
  /\ [][\A c \in Calls : \A p \in RequestParams :
          (arrives(c, p) /\ refused(p)) =>
             /\ promise[c] = "pending"
             /\ promise'[c] \in {"AuthError", "CSRF", "NoCode", "Unexpected"}
             /\ reqs'[c][Len(reqs'[c])].at = "done"
             /\ UNCHANGED <<net, credentials, files, exchanged, saves, lastSaved>>]_vars
  /\ [](\A c \in Calls : \A i \in 1..Len(reqs[c]) :
          refused(reqs[c][i].p) =>
             (reqs[c][i].at = "done" /\ reqs[c][i].did # "resolve"))

\* a callback with the right state and neither error nor code has been
\* received and has rejected the promise before any token request
C25_Witness ==
  \E c \in Calls : \E i \in 1..Len(reqs[c]) :
    /\ reqs[c][i].p.path /\ reqs[c][i].p.state = GoodState
    /\ reqs[c][i].p.code = Undef
    /\ promise[c] = "NoCode"
    /\ net[c]["getToken"] = 0

\* a callback with an error and a code has been received and has rejected
C25_ErrorWithCodeReached ==
  \E c \in Calls : \E i \in 1..Len(reqs[c]) :
    /\ reqs[c][i].p.path /\ Truthy(reqs[c][i].p.error) /\ Truthy(reqs[c][i].p.code)
    /\ promise[c] = "AuthError"

(* --------------------- claims: markers at one offset ------------------ *)
\* the end indices that two or more markers share
sharedIndices ==
  {e \in StackEndIndices :
     Cardinality({i \in 1..Len(markers) : markers[i].index = e}) >= 2}

\* the markers of end index e, the marker of the support listed later first
RECURSIVE stackOf(_, _)
stackOf(ms, e) ==
  IF ms = <<>> THEN <<>>
  ELSE stackOf(Tail(ms), e) \o (IF Head(ms).index = e THEN Head(ms).marker ELSE <<>>)

\* where one marker of end index e goes in a text of len characters
place(e, len) ==
  IF e < 0 THEN (IF len + e > 0 THEN len + e ELSE 0)
  ELSE (IF e < len THEN e ELSE len)

\* the markers of end index e stand together in body t, the later support's
\* first, after the first characters of the answer text up to their place
stackedAt(t, e) ==
  LET stack == stackOf(markers, e)
  IN \E n \in 0..(Len(t) - Len(stack)) :
       /\ SubSeq(t, n + 1, n + Len(stack)) = stack
       /\ lettersOf(SubSeq(t, 1, n)) = SubSeq(responseText, 1, place(e, Len(responseText)))

\* every end index lies within the answer text
allInRange == \A i \in 1..Len(markers) : markers[i].index \in 0..Len(responseText)

\* C26: the markers of supports that share an end index stand together at
\* that offset of the answer text, the marker of the support listed later
\* first, whatever the end index is
C26_StackedInReverse ==
  \A r \in lastRun :
    texts[r].found => \A e \in sharedIndices : stackedAt(body(r), e)

\* the same when every end index lies within the answer text
C26_StackedInReverseInRange ==
  \A r \in lastRun :
    (texts[r].found /\ allInRange) => \A e \in sharedIndices : stackedAt(body(r), e)

\* two supports ending at 2 that cite the first and the second chunk give
\* "[2][1]" after the first two characters
C26_InRangeReached ==
  /\ Len(texts) > 0 /\ texts[1].found /\ allInRange
  /\ Len(markers) = 2
  /\ markers[1].index = 2 /\ markers[2].index = 2
  /\ markers[1].marker = markerText(<<0>>) /\ markers[2].marker = markerText(<<1>>)
  /\ body(1) = <<"a", "b", "[", "2", "]", "[", "1", "]", "c">>

(* ---------------------- claims: project discovery --------------------- *)
\* setupUserProject has run for call c in this step
setupRuns(c) == pc[c] = "setupUserProject" /\ pc'[c] # "setupUserProject"

\* the id in an onboarding response
onboardedId(o) == Or(o.respId, o.topId)

\* C27: after a 404 or 403 of the discovery endpoint the onboarding endpoint
\* is called once and the setup does not fail with the discovery error; an id
\* in the onboarding response is the id the setup returns and the session's
\* project id, and it is in the config file when the write has succeeded; any
\* other response that is not 2xx fails the setup before onboarding
C27_NotFoundMeansOnboarding ==
  [][\A c \in Calls :
       setupRuns(c) =>
         LET s == setup'[c]
         IN /\ s.d.status \in {403, 404} =>
                 /\ net'[c]["discovery"] = net[c]["discovery"] + 1
                 /\ net'[c]["onboard"] = net[c]["onboard"] + 1
                 /\ s.error # "Load Code Assist failed"
                 /\ (s.o.status = 200 /\ Truthy(onboardedId(s.o))) =>
                       /\ s.status = "returned"
                       /\ s.id = onboardedId(s.o)
                       /\ projectId' = onboardedId(s.o)
                       /\ s.w2 => configFile' = ConfigFile(onboardedId(s.o))
                       /\ ~s.w2 => configFile' = configFile
            /\ (s.d.status # 0 /\ ~ok(s.d.status) /\ s.d.status \notin {403, 404}) =>
                 /\ s.status = "thrown"
                 /\ s.error = "Load Code Assist failed"
                 /\ net'[c]["onboard"] = net[c]["onboard"]
                 /\ UNCHANGED <<projectId, configFile>>]_vars

\* discovery answered 404, onboarding returned an id, and the id is the
\* session's project id and in the config file
C27_Witness ==
  \E c \in Calls :
    /\ setup[c].status = "returned"
    /\ setup[c].d.status = 404
    /\ setup[c].o.status = 200 /\ setup[c].o.respId = "pO"
    /\ net[c]["onboard"] = 1
    /\ projectId = "pO"
    /\ configFile = ConfigFile("pO")

\* discovery answered 500 and the setup has failed
C27_FatalReached ==
  \E c \in Calls : setup[c].status = "thrown" /\ setup[c].d.status = 500

(* --------------------- claims: the session's fields ------------------- *)
\* C28: whenever no call is being served, a session that holds an OAuth
\* client holds a project id: an initialization that has failed has left
\* model, oauthClient and projectId unset
C28_NoHalfInitializedSession ==
  NoCallInFlight => (oauthClient # 0 => Truthy(projectId))

(* ------------------ claims: what a failed login leaves ---------------- *)
\* C29: an authorization attempt whose login promise has been rejected
\* has written no credential file
C29_RejectedLoginWritesNothing ==
  \A c \in Calls : promise[c] \notin {"pending", "resolved"} => saves[c] = 0

(* ---------------------- claims: what a marker cites ------------------- *)
\* the numbers of the markers in body t: what stands between "[" and "]"
cited(t) == {t[j] : j \in {k \in 2..(Len(t) - 1) : t[k - 1] = "[" /\ t[k + 1] = "]"}}

\* C30: every marker "[n]" in the merged text has 1 <= n <= the number of
\* grounding chunks, so that it names a line of the source list
C30_MarkersCiteListedSources ==
  \A r \in lastRun :
    texts[r].found =>
      cited(body(r)) \subseteq {ToString(n) : n \in 1..Len(chunkList)}

(* ------------------- claims: end indices out of the text -------------- *)
\* the position of the last character of the answer text in body t
lastLetter(t) ==
  IF \E j \in 1..Len(t) : t[j] \in Range(Letters)
  THEN CHOOSE j \in 1..Len(t) :
         t[j] \in Range(Letters) /\ \A k \in (j + 1)..Len(t) : t[k] \notin Range(Letters)
  ELSE 0

\* how many times marker m stands in t, read marker by marker
occurrences(t, m) ==
  Cardinality({j \in 0..((Len(t) \div 3) - 1) : SubSeq(t, 3 * j + 1, 3 * j + 3) = m})

\* C31: whatever the end indices are, beyond the text or negative, the merge
\* answers without an error, the merged body without its markers is the
\* answer text, every marker is in the body, and the markers whose end index
\* exceeds the text length stand after the last character of the text
C31_MergeKeepsTheText ==
  \A r \in lastRun :
    texts[r].found =>
      LET t == body(r)
          end == SubSeq(t, lastLetter(t) + 1, Len(t))
      IN /\ ~texts[r].isError
         /\ lettersOf(t) = responseText
         /\ Len(t) = Len(responseText) + 3 * Len(markers)
         /\ \A m \in {markerText(<<0>>), markerText(<<1>>)} :
              Cardinality({i \in 1..Len(markers) :
                             markers[i].marker = m /\ markers[i].index > Len(responseText)})
                <= occurrences(end, m)

\* a marker beyond the text and two negative ones, one of them further back
\* than the text is long, have been merged
C31_Witness ==
  /\ Len(texts) > 0 /\ texts[1].found
  /\ Len(markers) = 3
  /\ markers[1].index = 0 - (MaxLen + 1)
  /\ markers[2].index = MaxLen + 1
  /\ markers[3].index = 0 - 1
  /\ lettersOf(body(1)) = responseText

(* ------------------- claims: requests for another path ---------------- *)
\* C32: a request whose URL does not contain '/oauth2callback' ends in the
\* step that receives it: the login promise is rejected with 'Unexpected
\* request', the response is the redirect to the failure page, the listener
\* is closed, and the token endpoint is not called
C32_OtherPathRejects ==
  [][\A c \in Calls : \A p \in RequestParams :
       (arrives(c, p) /\ ~p.path) =>
          LET r == reqs'[c][Len(reqs'[c])]
          IN /\ promise[c] = "pending"
             /\ promise'[c] = "Unexpected"
             /\ r.at = "done" /\ r.did = "Unexpected"
             /\ r.res = SignInFailure
             /\ listener[c] = "listening" /\ listener'[c] = "closed"
             /\ UNCHANGED <<net, credentials, files, exchanged, saves>>]_vars

\* a request for another path that carries the right state and a code has
\* been received
C32_Witness ==
  \E c \in Calls : \E i \in 1..Len(reqs[c]) :
    /\ ~reqs[c][i].p.path
    /\ reqs[c][i].p.state = GoodState /\ Truthy(reqs[c][i].p.code)
    /\ promise[c] = "Unexpected"
    /\ listener[c] = "closed"
    /\ net[c]["getToken"] = 0

(* ----------------------- claims: the callback port -------------------- *)
\* SpecListen: the login with every outcome of the port: getAvailablePort
\* gives a port or rejects, and the callback server binds the port or finds
\* it taken. OAuth with the project configured; searches one after the other.
InitListen ==
  /\ InitWith({e \in AuthEnvs : e.GOOGLE_APPLICATION_CREDENTIALS = Undef},
              {NoFile, cacheCredentials(EarlierCreds)}, {NoFile}, {NoFile})
  /\ NoAnswer

NextListen ==
  \/ \E c \in Calls : NoCallInFlight /\ handleWebSearch(c, "q")
  \/ \E c \in Calls, out \in SearchOutcomes : searchDone(c, out)
  \/ \E c \in Calls, infoOk \in BOOLEAN : getOauthClient(c, "token", infoOk)
  \/ \E c \in Calls, port \in Ports \cup {0}, bound \in BOOLEAN : authWithWeb(c, port, bound)
  \/ \E c \in Calls, opened \in BOOLEAN : openBrowser(c, opened)
  \/ \E c \in Calls : loginComplete(c)
  \/ \E c \in Calls, p \in ConcurrentRequests : receiveRequest(c, p)
  \/ \E c \in Calls, i \in 1..MaxRequests, exchangeOk \in BOOLEAN, tokens \in SessionTokens :
       getTokenDone(c, i, exchangeOk, tokens)
  \/ \E c \in Calls, i \in 1..MaxRequests : cacheCredentialsDone(c, i, TRUE)
  \/ \E c \in Calls, d \in AuthDiscovery, o \in OnboardResponses :
       setupProject(c, d, o, TRUE, TRUE)

SpecListen == InitListen /\ [][NextListen]_vars

\* C33: the port in the redirect URI is the port the callback server listens
\* on, and when the server cannot bind that port the login promise is
\* rejected
C33_BindFailureRejects ==
  \A c \in Calls :
    /\ listener[c] \in {"listening", "error"} =>
         (webLogin[c].redirectPort = webLogin[c].listenPort /\ webLogin[c].listenPort \in Ports)
    /\ listener[c] = "error" => promise[c] \notin {"pending", "resolved"}

\* the first half alone: the redirect URI carries the port listened on
C33_RedirectPortIsListenPort ==
  \A c \in Calls :
    listener[c] \in {"listening", "error"} =>
      (webLogin[c].redirectPort = webLogin[c].listenPort /\ webLogin[c].listenPort \in Ports)

(* ------------------ claims: a project id known locally ---------------- *)
\* C34: when GOOGLE_CLOUD_PROJECT or the config file gives a project id,
\* setupUserProject returns a project id, whatever discovery and onboarding
\* answer
C34_LocalProjectSurvivesFailure ==
  \A c \in Calls :
    (setup[c].status # "none"
       /\ (Truthy(env.GOOGLE_CLOUD_PROJECT) \/ Truthy(setup[c].cached)))
      => (setup[c].status = "returned" /\ Truthy(setup[c].id))

(* ---------------------- claims: cached credentials -------------------- *)
\* the file loadCachedCredentials reads in this state
keyFileNow == keyFileOf(env, credFile, otherFile)

\* loadCachedCredentials has ended for call c in this step
loadEnds(c) == pc[c] = "loadCachedCredentials" /\ pc'[c] # "loadCachedCredentials"

\* C35: a readable credential file, an access token and a successful token
\* introspection make the load succeed; and a load that has succeeded gives
\* the session its client in the same step, with no listener bound, no
\* authorization URL built, no browser opened, no token exchanged and no
\* file written
C35_ValidCacheSkipsLogin ==
  /\ []((keyFileNow.exists /\ keyFileNow.parses) =>
          loadCachedCredentials(keyFileNow, "token", TRUE) = "true")
  /\ [][\A c \in Calls :
          (loadEnds(c) /\ keyFileNow.exists /\ keyFileNow.parses
             /\ net'[c]["tokeninfo"] = net[c]["tokeninfo"] + 1 /\ loaded'[c] # "false") =>
             /\ loaded'[c] = "true"
             /\ oauthClient' = c
             /\ pc'[c] = "setupUserProject"
             /\ credentials'[c] = JSONparse(keyFileNow.obj)
             /\ UNCHANGED <<files, flow, exchanged, saves, lastSaved>>]_vars
  /\ [](\A c \in Calls :
          loaded[c] = "true" =>
             /\ listener[c] = "unbound" /\ webLogin[c] = NoWebLogin
             /\ promise[c] = "pending" /\ reqs[c] = <<>>
             /\ net[c]["getToken"] = 0 /\ saves[c] = 0
             /\ pc[c] \notin {"authWithWeb", "open", "waiting"})

\* the cached credentials were valid, the session has its client and the
\* call has gone on to the search
C35_Witness ==
  \E c \in Calls :
    /\ loaded[c] = "true"
    /\ oauthClient = c
    /\ pc[c] \in {"search", "done"}
    /\ listener[c] = "unbound"
    /\ credFile = cacheCredentials(EarlierCreds)

(* --------------------- claims: the three entry points ----------------- *)
\* text t after its caption
afterCaption(t, caption) == SubSeq(t, Len(caption) + 1, Len(t))

\* C36: from the same answer text, chunk list and support list the MCP
\* server, the CLI and the Code Assist server build the same merged text,
\* and the same message when the answer is empty
C36_SameMergeEverywhere ==
  \A r \in lastRun :
    LET viaCaption == ResultsCaptionVia("q", useOAuth(env))
    IN /\ assisted[r].found = texts[r].found
       /\ assisted[r].isError = texts[r].isError
       /\ texts[r].found =>
            /\ SubSeq(printed[r].out, 1, Len(ResultsCaption("q"))) = ResultsCaption("q")
            /\ SubSeq(assisted[r].text, 1, Len(viaCaption)) = viaCaption
            /\ afterCaption(printed[r].out, ResultsCaption("q")) = merged(r)
            /\ afterCaption(assisted[r].text, viaCaption) = merged(r)
       /\ ~texts[r].found =>
            (printed[r].out = texts[r].text /\ assisted[r].text = texts[r].text)

\* an answer with two chunks and three markers given out of order, two of
\* them at one end index, has been merged by the three
C36_Witness ==
  /\ Len(texts) > 0 /\ Len(printed) > 0 /\ Len(assisted) > 0
  /\ texts[1].found
  /\ Len(chunkList) = 2
  /\ Len(markers) = 3
  /\ markers[1].index = 1 /\ markers[2].index = 3 /\ markers[3].index = 1
  /\ markers[3].marker = markerText(<<1, 0>>)
  /\ afterCaption(printed[1].out, ResultsCaption("q")) = merged(1)

(* ----------------------- claims: the config write --------------------- *)
\* what setupUserProject does on the same input when both writes succeed
withWrites(s, file) ==
  setupUserProject(env.GOOGLE_CLOUD_PROJECT, file, s.d, s.o, TRUE, TRUE)

\* C37: a config file that cannot be created or written never fails the
\* project setup: setupUserProject returns or throws exactly as it does when
\* the writes succeed, with the same id, and an id found by discovery or by
\* onboarding is returned and becomes the session's project id while the
\* file stays as it was
C37_ConfigWriteFailureSwallowed ==
  [][\A c \in Calls :
       setupRuns(c) =>
         LET s == setup'[c]
             w == withWrites(s, configFile)
         IN /\ s.error # "Could not save project configuration"
            /\ s.status = (IF w.thrown THEN "thrown" ELSE "returned")
            /\ s.id = w.id /\ s.error = w.error
            /\ s.status = "returned" => projectId' = s.id
            /\ (~s.w1 /\ ~loadCodeAssist(s.d).onboardingRequired) =>
                 /\ s.status = "returned" /\ s.id = s.d.project
                 /\ configFile' = configFile
            /\ (~s.w2 /\ s.o.status = 200 /\ Truthy(onboardedId(s.o))) =>
                 /\ s.status = "returned" /\ s.id = onboardedId(s.o)
                 /\ configFile' = IF Truthy(s.d.project) /\ s.w1
                                  THEN ConfigFile(s.d.project) ELSE configFile]_vars

\* discovery has found a project, the config file could not be written, and
\* the session has the project id
C37_Witness ==
  \E c \in Calls :
    /\ setup[c].status = "returned"
    /\ ~setup[c].w1
    /\ setup[c].id = "pD" /\ projectId = "pD"
    /\ configFile # ConfigFile("pD")

\* onboarding has returned an id and the config file could not be written
C37_OnboardedUnsavedReached ==
  \E c \in Calls :
    /\ setup[c].status = "returned"
    /\ ~setup[c].w2
    /\ setup[c].id = "pO" /\ projectId = "pO"
    /\ configFile # ConfigFile("pO")

=============================================================================
